---- MODULE Spec2Model ----
(***************************************************************************)
(* Schedule generation of Planerka: ConstraintBuilder (data assembler),    *)
(* ScheduleGenerator.validate_input / generate, ScheduleEncoder and        *)
(* ScheduleSolver, as one generation request over one persistence state.   *)
(* encoders counts the ScheduleEncoder objects constructed so far.         *)
(* debug_file is schedule_generation_input_debug.json; schedule is the     *)
(* stored Schedule row with its ScheduleEntry rows; requests holds the     *)
(* generate_schedule requests in flight.                                   *)
(***************************************************************************)
EXTENDS Integers, Sequences, FiniteSets, TLC

VARIABLES db, timeout, pc, data, encoders, encoder, diag, solver, elapsed, result,
          debug_file, schedule, requests

vars == <<db, timeout, pc, data, encoders, encoder, diag, solver, elapsed, result,
          debug_file, schedule, requests>>

(***************************************************************************)
(* Identifiers.  Columns declared UUID(as_uuid=True) hold uuid.UUID        *)
(* objects; the JSON column constraint_data holds the same identifiers as  *)
(* plain strings.  Python never finds a UUID equal to a str.               *)
(***************************************************************************)
U(x) == <<"uuid", x>>

S(x) == <<"str", x>>

\* Python None for an identifier (dict.get of a missing key).
NoneId == <<"none", "">>

\* Python None in the second slot of validate_input's result pair.
NoError == "None"

\* The third slot of generate's result triple: None, or a string kept as
\* its literal prefix and the formatted parts joined after it.
NoMessage == [is_none |-> TRUE]

Text(msg) == [is_none |-> FALSE, prefix |-> msg, parts |-> <<>>]

\* str(x) of an identifier inside an f-string.
Str(id) == <<"str", id[2]>>

\* Python None / a list in the second slot of generate's result triple.
NoEntries == [is_none |-> TRUE]

SomeEntries(es) == [is_none |-> FALSE, list |-> es]

(***************************************************************************)
(* Bounds of the explored inputs.                                          *)
(***************************************************************************)
MaxCount == 2

MaxSlots == 2

MaxCapacity == 2

\* generate(institution_id, timeout=300)
DefaultTimeout == 300

(***************************************************************************)
(* Sequence helpers standing for Python list comprehensions and loops.     *)
(***************************************************************************)
RECURSIVE Flatten(_)
Flatten(ss) == IF ss = <<>> THEN <<>> ELSE Head(ss) \o Flatten(Tail(ss))

Map(f(_), s) == [i \in 1..Len(s) |-> f(s[i])]

Range(s) == {s[i] : i \in 1..Len(s)}

RECURSIVE SumSeq(_)
SumSeq(s) == IF s = <<>> THEN 0 ELSE Head(s) + SumSeq(Tail(s))

\* Keys of a dict built by first-insertion order from a row sequence.
RECURSIVE Dedup(_, _)
Dedup(s, seen) ==
    IF s = <<>> THEN <<>>
    ELSE IF Head(s) \in seen THEN Dedup(Tail(s), seen)
         ELSE <<Head(s)>> \o Dedup(Tail(s), seen \cup {Head(s)})

(***************************************************************************)
(* ConstraintBuilder.build_from_institution: the persistence state db is   *)
(* a record of row sequences (one per table, in the order the queries      *)
(* return them); the result is the bundle generate consumes.               *)
(***************************************************************************)
\* An insertion-ordered dict: its keys in order and the value of each key.
OrderedDict(ks, f(_)) == [keys |-> ks, val |-> [k \in Range(ks) |-> f(k)]]

EmptyDict == [keys |-> <<>>, val |-> <<>>]

\* d.get(k, {}).items() for a dict of dicts.
ItemsOf(d, k) == IF k \in Range(d.keys) THEN d.val[k] ELSE <<>>

\* Rows of a group-lesson table whose group is one of `groups`, folded into
\* {group: {lesson: count}}; items of the inner dict are <<lesson, count>>.
GroupLessonsDict(rows, groups) ==
    LET kept == SelectSeq(rows, LAMBDA r : r.group_id \in Range(groups))
        Inner(g) ==
            LET mine == SelectSeq(kept, LAMBDA r : r.group_id = g)
            IN  [i \in 1..Len(mine) |-> <<mine[i].lesson_id, mine[i].count>>]
    IN  IF groups = <<>> THEN EmptyDict
        ELSE OrderedDict(Dedup(Map(LAMBDA r : r.group_id, kept), {}), Inner)

\* sg_to_students[sg]: the joined students of one study group, in row order.
StudentsOfStudyGroup(d, sg) ==
    LET ids  == {st.id : st \in Range(d.students)}
        rows == SelectSeq(d.study_group_students,
                          LAMBDA r : r.study_group_id = sg /\ r.student_id \in ids)
    IN  [i \in 1..Len(rows) |-> rows[i].student_id]

\* student_group_memberships: one entry per student met while walking the
\* study groups, with the study groups appended in walking order.
StudentGroupMemberships(d) ==
    LET walk == Flatten([i \in 1..Len(d.study_groups) |->
                    Map(LAMBDA st : <<st, d.study_groups[i]>>,
                        StudentsOfStudyGroup(d, d.study_groups[i]))])
        ClassOf(st) == (CHOOSE row \in Range(d.students) : row.id = st).class_group_id
        Entry(st) ==
            LET mine == SelectSeq(walk, LAMBDA w : w[1] = st)
            IN  [class_group_id  |-> ClassOf(st),
                 study_group_ids |-> Map(LAMBDA w : w[2], mine)]
    IN  OrderedDict(Dedup(Map(LAMBDA w : w[1], walk), {}), Entry)

BuildFromInstitution(d) ==
    [lessons      |-> d.lessons,
     teachers     |-> d.teachers,
     class_groups |-> Map(LAMBDA cg : cg.id, d.class_groups),
     study_groups |-> d.study_groups,
     rooms        |-> Map(LAMBDA room : room.id, d.rooms),
     time_slots   |-> d.time_slots,
     teacher_lessons |->
        [t \in Range(d.teachers) |->
            {tl.lesson_id : tl \in {x \in Range(d.teacher_lessons) : x.teacher_id = t}}],
     class_group_lessons |->
        GroupLessonsDict(d.class_group_lessons, Map(LAMBDA cg : cg.id, d.class_groups)),
     study_group_lessons |->
        GroupLessonsDict(d.study_group_lessons, d.study_groups),
     room_capacities   |-> [r \in {room.id : room \in Range(d.rooms)} |->
        (CHOOSE room \in Range(d.rooms) : room.id = r).capacity],
     class_group_sizes |-> [g \in {cg.id : cg \in Range(d.class_groups)} |->
        (CHOOSE cg \in Range(d.class_groups) : cg.id = g).student_count],
     study_group_sizes |-> [g \in Range(d.study_groups) |->
        Len(StudentsOfStudyGroup(d, g))],
     student_group_memberships |-> StudentGroupMemberships(d),
     constraints |-> Map(LAMBDA c : [constraint_type |-> c.constraint_type,
                                     constraint_data |-> c.constraint_data,
                                     priority        |-> c.priority],
                         d.constraints)]

\* dict.get(k, default) on a plain dict.
Get(f, k, default) == IF k \in DOMAIN f THEN f[k] ELSE default

(***************************************************************************)
(* ScheduleGenerator.validate_input: the reason of the first failed check, *)
(* or NoError.                                                             *)
(***************************************************************************)
MsgNoLessons == "No lessons found for this institution"

MsgNoTeachers == "No teachers found for this institution"

MsgNoGroups == "No class groups or study groups found for this institution"

MsgNoRooms == "No rooms found for this institution"

MsgNoTimeSlots == "No time slots found for this institution"

MsgNoTeacherLessons == "No teachers have assigned lessons"

MsgNoDemand == "No lesson-group assignments. Assign lessons to class groups and/or study groups in the Group Lessons tab."

MsgNoTeachableDemand == "No lesson-group assignments with an assigned teacher. Assign lessons to class groups and/or study groups in the Group Lessons tab, and ensure those lessons are assigned to at least one teacher."

\* All <<lesson, count>> items of a dict of dicts, outer keys in order.
AllItems(d) == Flatten([i \in 1..Len(d.keys) |-> d.val[d.keys[i]]])

\* {t_id for t_id, lessons in data["teacher_lessons"].items() if lessons}
TeachersWithLessons(dt) ==
    {t \in DOMAIN dt.teacher_lessons : dt.teacher_lessons[t] # {}}

\* Mutant: one kind of group missing counts as no groups.
NoGroups_Either(dt) == dt.class_groups = <<>> \/ dt.study_groups = <<>>

\* not data["class_groups"] and not data.get("study_groups")
NoGroups(dt) == dt.class_groups = <<>> /\ dt.study_groups = <<>>

\* Mutant: the demand items are counted, not their counts summed.
TotalSlots_Items(dt) ==
    Len(AllItems(dt.class_group_lessons)) + Len(AllItems(dt.study_group_lessons))

\* total_slots: the sum of the counts of both demand dicts.
TotalSlots(dt) ==
    SumSeq(Map(LAMBDA it : it[2], AllItems(dt.class_group_lessons)))
    + SumSeq(Map(LAMBDA it : it[2], AllItems(dt.study_group_lessons)))

\* Mutant: the loop over the study groups' lessons is missing.
AtLeastOneTeachable_ClassOnly(dt) ==
    \E it \in Range(AllItems(dt.class_group_lessons)) :
        \E tid \in TeachersWithLessons(dt) : it[1] \in Get(dt.teacher_lessons, tid, {})

\* at_least_one_teachable after the two loops over the demand dicts.
AtLeastOneTeachable(dt) ==
    LET Teachable(lid) ==
            \E tid \in TeachersWithLessons(dt) : lid \in Get(dt.teacher_lessons, tid, {})
    IN  \/ \E it \in Range(AllItems(dt.class_group_lessons)) : Teachable(it[1])
        \/ \E it \in Range(AllItems(dt.study_group_lessons)) : Teachable(it[1])

ValidateInput(dt) ==
    IF dt.lessons = <<>> THEN MsgNoLessons
    ELSE IF dt.teachers = <<>> THEN MsgNoTeachers
    ELSE IF NoGroups(dt) THEN MsgNoGroups
    ELSE IF dt.rooms = <<>> THEN MsgNoRooms
    ELSE IF dt.time_slots = <<>> THEN MsgNoTimeSlots
    ELSE IF TeachersWithLessons(dt) = {} THEN MsgNoTeacherLessons
    ELSE IF TotalSlots(dt) = 0 THEN MsgNoDemand
    ELSE IF ~AtLeastOneTeachable(dt) THEN MsgNoTeachableDemand
    ELSE NoError

(***************************************************************************)
(* ScheduleEncoder.  A key is <<lesson, teacher, group, room, time_slot>>. *)
(* variables maps keys to numbers, reverse_variables numbers to keys; cnf  *)
(* is the clause list.  A clause is [type |-> "clause", lits |-> seq of    *)
(* signed integers]; the clause block CardEnc.equals returns is kept as    *)
(* one entry [type |-> "equals", lits, bound, top_id, nv].                 *)
(***************************************************************************)
NewEncoder ==
    [variables         |-> <<>>,
     reverse_variables |-> <<>>,
     group_types       |-> <<>>,
     next_var          |-> 1,
     cnf               |-> <<>>]

Clause(lits) == [type |-> "clause", lits |-> lits]

\* group_types after the two loops of encode_variables (study overrides class).
GroupTypes(class_groups, study_groups) ==
    [g \in Range(class_groups) \cup Range(study_groups) |->
        IF g \in Range(study_groups) THEN "study_group" ELSE "class_group"]

\* The lesson-presence test of encode_variables for one group.
LessonDemanded(group_types, dt, lesson_id, group_id) ==
    IF Get(group_types, group_id, "class_group") = "class_group"
    THEN lesson_id \in {it[1] : it \in Range(ItemsOf(dt.class_group_lessons, group_id))}
    ELSE lesson_id \in {it[1] : it \in Range(ItemsOf(dt.study_group_lessons, group_id))}

\* Mutant: the capability test is dropped.
TeacherCanTeach_Any(dt, teacher_id, lesson_id) == TRUE

\* The teacher-capability test of encode_variables.
TeacherCanTeach(dt, teacher_id, lesson_id) ==
    lesson_id \in Get(dt.teacher_lessons, teacher_id, {})

\* Keys in the order the nested loops of encode_variables visit them.
VariableKeys(group_types, dt) ==
    LET all_groups == dt.class_groups \o dt.study_groups
        ForGroup(l, t, g) ==
            IF LessonDemanded(group_types, dt, l, g)
            THEN Flatten([r \in 1..Len(dt.rooms) |->
                    [s \in 1..Len(dt.time_slots) |->
                        <<l, t, g, dt.rooms[r], dt.time_slots[s]>>]])
            ELSE <<>>
        ForTeacher(l, t) ==
            IF TeacherCanTeach(dt, t, l)
            THEN Flatten([g \in 1..Len(all_groups) |-> ForGroup(l, t, all_groups[g])])
            ELSE <<>>
        ForLesson(l) ==
            Flatten([t \in 1..Len(dt.teachers) |-> ForTeacher(l, dt.teachers[t])])
    IN  Flatten([l \in 1..Len(dt.lessons) |-> ForLesson(dt.lessons[l])])

\* Mutant: "if key not in self.variables" is missing.
EncodeVariables_NoMembershipTest(enc, dt) ==
    LET group_types == GroupTypes(dt.class_groups, dt.study_groups)
        visited == VariableKeys(group_types, dt)
        base  == enc.next_var - 1
        Last(k) == CHOOSE i \in 1..Len(visited) :
                      visited[i] = k /\ \A j \in 1..Len(visited) : visited[j] = k => j <= i
    IN  [enc EXCEPT
            !.group_types = group_types,
            !.variables = [k \in DOMAIN enc.variables \cup Range(visited) |->
                IF k \in Range(visited) THEN base + Last(k) ELSE enc.variables[k]],
            !.reverse_variables = enc.reverse_variables \o visited,
            !.next_var = enc.next_var + Len(visited)]

EncodeVariables(enc, dt) ==
    LET group_types == GroupTypes(dt.class_groups, dt.study_groups)
        fresh == Dedup(VariableKeys(group_types, dt), DOMAIN enc.variables)
        base  == enc.next_var - 1
    IN  [enc EXCEPT
            !.group_types = group_types,
            !.variables = [k \in DOMAIN enc.variables \cup Range(fresh) |->
                IF k \in DOMAIN enc.variables THEN enc.variables[k]
                ELSE base + (CHOOSE i \in 1..Len(fresh) : fresh[i] = k)],
            !.reverse_variables = enc.reverse_variables \o fresh,
            !.next_var = enc.next_var + Len(fresh)]

\* [var for key, var in self.variables.items() if P(key)]: insertion order
\* is the order of the variable numbers.
VarsWhere(enc, P(_)) ==
    SelectSeq([i \in 1..Len(enc.reverse_variables) |-> i],
              LAMBDA v : P(enc.reverse_variables[v]))

(***************************************************************************)
(* ScheduleEncoder.get_infeasible_pairs.                                   *)
(***************************************************************************)
ReasonNoTeacher ==
    [text |-> "no teacher is assigned to teach this lesson for this group",
     args |-> <<>>]

\* "need {} lesson placements but only {} valid ... combination(s) ...".format(count, n)
ReasonTooFew(count, n) ==
    [text |-> "need {} lesson placements but only {} valid (teacher, room, time slot) combination(s) - add more time slots or resources",
     args |-> <<count, n>>]

ReasonNoRoom ==
    [text |-> "no room has sufficient capacity for this group", args |-> <<>>]

\* The verdict of the loop body for one (group, lesson, count): a sequence
\* with the reported triple, or the empty sequence.
ProbePair(enc, room_capacities, sizes, g, lesson_id, count) ==
    LET vars_for == VarsWhere(enc, LAMBDA key : key[1] = lesson_id /\ key[3] = g)
        cap == Get(sizes, g, 0)
    IN  IF vars_for = <<>> THEN << <<lesson_id, g, ReasonNoTeacher>> >>
        ELSE IF Len(vars_for) < count THEN << <<lesson_id, g, ReasonTooFew(count, Len(vars_for))>> >>
        ELSE IF \E i \in 1..Len(vars_for) :
                    Get(room_capacities, enc.reverse_variables[vars_for[i]][4], 0) >= cap
             THEN <<>>
        ELSE << <<lesson_id, g, ReasonNoRoom>> >>

ProbeDict(enc, room_capacities, sizes, group_lessons) ==
    Flatten([i \in 1..Len(group_lessons.keys) |->
        LET g == group_lessons.keys[i]
            items == group_lessons.val[g]
        IN  Flatten([j \in 1..Len(items) |->
                ProbePair(enc, room_capacities, sizes, g, items[j][1], items[j][2])])])

GetInfeasiblePairs(enc, dt) ==
    ProbeDict(enc, dt.room_capacities, dt.class_group_sizes, dt.class_group_lessons)
    \o ProbeDict(enc, dt.room_capacities, dt.study_group_sizes, dt.study_group_lessons)

(***************************************************************************)
(* ScheduleEncoder.encode_hard_constraints.                                *)
(***************************************************************************)
Max(a, b) == IF a >= b THEN a ELSE b

\* pysat CardEnc.equals(lits, bound, top_id, seqcounter): the block forces
\* exactly `bound` of `lits` true and numbers its auxiliary variables from
\* top_id + 1 up to nv (a sequential counter for "at least" and one for
\* "at most"; no auxiliaries when the bound is 0 or Len(lits)).
CardEncEquals(lits, bound, top_id) ==
    LET n == Len(lits)
        aux == IF bound <= 0 \/ bound >= n THEN 0
               ELSE (n - 1) * bound + (n - 1) * (n - bound)
    IN  [type |-> "equals", lits |-> lits, bound |-> bound,
         top_id |-> top_id, nv |-> top_id + aux]

\* <<group, lesson, count>> in the order of
\* "for g in groups: for lesson_id, count in group_lessons.get(g, {}).items()".
DemandPairs(groups, group_lessons) ==
    Flatten([i \in 1..Len(groups) |->
        Map(LAMBDA it : <<groups[i], it[1], it[2]>>, ItemsOf(group_lessons, groups[i]))])

\* Mutant: every pair is encoded as exactly one session, ignoring count.
EncodeDemandPair_OneSession(enc, g, lesson_id, count) ==
    LET lesson_vars == VarsWhere(enc, LAMBDA key : key[1] = lesson_id /\ key[3] = g)
        card_cnf == CardEncEquals(lesson_vars, 1, enc.next_var - 1)
    IN  IF Len(lesson_vars) < count THEN enc
        ELSE [enc EXCEPT !.cnf = Append(@, card_cnf),
                         !.next_var = Max(@, card_cnf.nv + 1)]

\* Mutant: next_var is not advanced past the block's auxiliaries.
EncodeDemandPair_NoAdvance(enc, g, lesson_id, count) ==
    LET lesson_vars == VarsWhere(enc, LAMBDA key : key[1] = lesson_id /\ key[3] = g)
        card_cnf == CardEncEquals(lesson_vars, count, enc.next_var - 1)
    IN  IF Len(lesson_vars) < count THEN enc
        ELSE [enc EXCEPT !.cnf = Append(@, card_cnf)]

\* One pass of the demand loop body: the exactly-count block of one pair.
EncodeDemandPair(enc, g, lesson_id, count) ==
    LET lesson_vars == VarsWhere(enc, LAMBDA key : key[1] = lesson_id /\ key[3] = g)
        card_cnf == CardEncEquals(lesson_vars, count, enc.next_var - 1)
    IN  IF Len(lesson_vars) < count THEN enc
        ELSE [enc EXCEPT !.cnf = Append(@, card_cnf),
                         !.next_var = Max(@, card_cnf.nv + 1)]

RECURSIVE EncodeDemand(_, _)
EncodeDemand(enc, pairs) ==
    IF pairs = <<>> THEN enc
    ELSE EncodeDemand(
            EncodeDemandPair(enc, Head(pairs)[1], Head(pairs)[2], Head(pairs)[3]),
            Tail(pairs))

\* [-v[i], -v[j]] for i < j, in loop order.
PairwiseAMO(vs) ==
    Flatten([i \in 1..Len(vs) |->
        [j \in 1..(Len(vs) - i) |-> Clause(<<-vs[i], -vs[i + j]>>)]])

\* [-a, -b] for a in as, b in bs, in loop order.
CrossAMO(as, bs) ==
    Flatten([i \in 1..Len(as) |->
        [j \in 1..Len(bs) |-> Clause(<<-as[i], -bs[j]>>)]])

\* Variables of one resource value (key position pos) in one time slot.
VarsAt(enc, pos, id, time_slot_id) ==
    VarsWhere(enc, LAMBDA key : key[pos] = id /\ key[5] = time_slot_id)

TeacherConflictClauses(enc, dt) ==
    Flatten([t \in 1..Len(dt.teachers) |->
        Flatten([s \in 1..Len(dt.time_slots) |->
            PairwiseAMO(VarsAt(enc, 2, dt.teachers[t], dt.time_slots[s]))])])

\* Mutant: the group loop runs over class_groups only.
GroupConflictClauses_ClassOnly(enc, dt) ==
    Flatten([g \in 1..Len(dt.class_groups) |->
        Flatten([s \in 1..Len(dt.time_slots) |->
            PairwiseAMO(VarsAt(enc, 3, dt.class_groups[g], dt.time_slots[s]))])])

GroupConflictClauses(enc, dt) ==
    LET all_groups == dt.class_groups \o dt.study_groups
    IN  Flatten([g \in 1..Len(all_groups) |->
            Flatten([s \in 1..Len(dt.time_slots) |->
                PairwiseAMO(VarsAt(enc, 3, all_groups[g], dt.time_slots[s]))])])

RoomConflictClauses(enc, dt) ==
    Flatten([r \in 1..Len(dt.rooms) |->
        Flatten([s \in 1..Len(dt.time_slots) |->
            PairwiseAMO(VarsAt(enc, 4, dt.rooms[r], dt.time_slots[s]))])])

\* Class group against each study group of the same student.
StudentOverlapClauses(enc, dt) ==
    LET ms == dt.student_group_memberships
        ForStudent(m) ==
            IF m.class_group_id # NoneId /\ m.study_group_ids # <<>>
            THEN Flatten([k \in 1..Len(m.study_group_ids) |->
                    Flatten([s \in 1..Len(dt.time_slots) |->
                        CrossAMO(VarsAt(enc, 3, m.class_group_id, dt.time_slots[s]),
                                 VarsAt(enc, 3, m.study_group_ids[k], dt.time_slots[s]))])])
            ELSE <<>>
    IN  Flatten([i \in 1..Len(ms.keys) |-> ForStudent(ms.val[ms.keys[i]])])

\* overlapping_sg_pairs: the unordered pairs of distinct study groups that
\* occur together in one student's study_group_ids.
OverlappingSgPairs(dt) ==
    LET ms == dt.student_group_memberships
    IN  UNION {
            LET sgs == ms.val[st].study_group_ids
            IN  {{sgs[i], sgs[j]} : i, j \in 1..Len(sgs)} \ {{sgs[i]} : i \in 1..Len(sgs)}
            : st \in Range(ms.keys)}

RECURSIVE SeqOfSet(_)
SeqOfSet(xs) ==
    IF xs = {} THEN <<>>
    ELSE LET x == CHOOSE y \in xs : TRUE IN <<x>> \o SeqOfSet(xs \ {x})

\* Mutant: no clause between two study groups of one student.
StudyPairClausesIn_Skipped(enc, dt, pairs) == <<>>

\* Mutant: the loop over the pairs stops after its first pass.
StudyPairClausesIn_FirstOnly(enc, dt, pairs) ==
    IF pairs = <<>> THEN <<>>
    ELSE LET sg_a == CHOOSE a \in pairs[1] : TRUE
             sg_b == CHOOSE b \in pairs[1] : b # sg_a
         IN  Flatten([s \in 1..Len(dt.time_slots) |->
                 CrossAMO(VarsAt(enc, 3, sg_a, dt.time_slots[s]),
                          VarsAt(enc, 3, sg_b, dt.time_slots[s]))])

\* "for sg_a, sg_b in overlapping_sg_pairs", the set being visited in the
\* order `pairs`.
StudyPairClausesIn(enc, dt, pairs) ==
    LET ForPair(p) ==
            LET sg_a == CHOOSE a \in p : TRUE
                sg_b == CHOOSE b \in p : b # sg_a
            IN  Flatten([s \in 1..Len(dt.time_slots) |->
                    CrossAMO(VarsAt(enc, 3, sg_a, dt.time_slots[s]),
                             VarsAt(enc, 3, sg_b, dt.time_slots[s]))])
    IN  Flatten([i \in 1..Len(pairs) |-> ForPair(pairs[i])])

StudyPairClauses(enc, dt) ==
    StudyPairClausesIn(enc, dt, SeqOfSet(OverlappingSgPairs(dt)))

\* The size the capacity loop compares with the room of a key.
GroupSize(enc, dt, g) ==
    IF Get(enc.group_types, g, "class_group") = "class_group"
    THEN Get(dt.class_group_sizes, g, 0)
    ELSE Get(dt.study_group_sizes, g, 0)

\* Mutant: the comparison is turned around.
RoomTooSmall_Flipped(group_size, room_capacity) == room_capacity > group_size

RoomTooSmall(group_size, room_capacity) == group_size > room_capacity

CapacityClauses(enc, dt) ==
    LET small == VarsWhere(enc, LAMBDA key :
                    RoomTooSmall(GroupSize(enc, dt, key[3]),
                                 Get(dt.room_capacities, key[4], 0)))
    IN  [i \in 1..Len(small) |-> Clause(<<-small[i]>>)]

\* The clauses under "if not skip_conflicts", overlapping_sg_pairs being
\* visited in the order `pairs`.
ConflictClausesIn(enc, dt, pairs) ==
    TeacherConflictClauses(enc, dt) \o GroupConflictClauses(enc, dt)
    \o StudentOverlapClauses(enc, dt) \o StudyPairClausesIn(enc, dt, pairs)
    \o RoomConflictClauses(enc, dt)

ConflictClauses(enc, dt) ==
    ConflictClausesIn(enc, dt, SeqOfSet(OverlappingSgPairs(dt)))

\* Mutant: skip_conflicts also drops the capacity clauses.
EncodeHardConstraintsIn_SkipCapacity(enc, dt, skip_conflicts, pairs) ==
    LET e1 == EncodeDemand(enc, DemandPairs(dt.class_groups, dt.class_group_lessons))
        e2 == EncodeDemand(e1, DemandPairs(dt.study_groups, dt.study_group_lessons))
    IN  [e2 EXCEPT !.cnf =
            @ \o (IF skip_conflicts THEN <<>>
                  ELSE ConflictClausesIn(e2, dt, pairs) \o CapacityClauses(e2, dt))]

EncodeHardConstraintsIn(enc, dt, skip_conflicts, pairs) ==
    LET e1 == EncodeDemand(enc, DemandPairs(dt.class_groups, dt.class_group_lessons))
        e2 == EncodeDemand(e1, DemandPairs(dt.study_groups, dt.study_group_lessons))
    IN  [e2 EXCEPT !.cnf =
            @ \o (IF skip_conflicts THEN <<>> ELSE ConflictClausesIn(e2, dt, pairs))
              \o CapacityClauses(e2, dt)]

EncodeHardConstraints(enc, dt, skip_conflicts) ==
    EncodeHardConstraintsIn(enc, dt, skip_conflicts, SeqOfSet(OverlappingSgPairs(dt)))

(***************************************************************************)
(* ScheduleEncoder.encode_custom_constraints.                              *)
(***************************************************************************)
\* constraint_data.get("teacher_id"): an int, or None (never equal to an id).
NoTeacherId == 0

DataTeacherId(cd) == IF "teacher_id" \in DOMAIN cd THEN cd.teacher_id ELSE NoTeacherId

DataRoomId(cd) == IF "room_id" \in DOMAIN cd THEN cd.room_id ELSE NoneId

DataTimeSlotIds(cd) == IF "time_slot_ids" \in DOMAIN cd THEN cd.time_slot_ids ELSE <<>>

\* Mutant: a constraint of any other kind forbids the first variable.
CustomClauses_OtherKindsForbid(enc, constraint) ==
    IF constraint.constraint_type \in {"teacher_unavailable", "room_unavailable"}
    THEN <<>>
    ELSE <<Clause(<<-1>>)>>

\* Unit clauses of one constraint.
CustomClauses(enc, constraint) ==
    LET cd == constraint.constraint_data
        slots == DataTimeSlotIds(cd)
        Units(vs) == [i \in 1..Len(vs) |-> Clause(<<-vs[i]>>)]
    IN  IF constraint.constraint_type = "teacher_unavailable"
        THEN Flatten([s \in 1..Len(slots) |->
                Units(VarsAt(enc, 2, DataTeacherId(cd), slots[s]))])
        ELSE IF constraint.constraint_type = "room_unavailable"
        THEN Flatten([s \in 1..Len(slots) |->
                Units(VarsAt(enc, 4, DataRoomId(cd), slots[s]))])
        ELSE <<>>

EncodeCustomConstraints(enc, constraints) ==
    [enc EXCEPT !.cnf =
        @ \o Flatten([i \in 1..Len(constraints) |-> CustomClauses(enc, constraints[i])])]

(***************************************************************************)
(* ScheduleSolver.  The glucose3 solver is complete: solve() is True iff   *)
(* the clause list is satisfiable, and get_model() is then one satisfying  *)
(* assignment, a list of signed variable numbers.                          *)
(***************************************************************************)
\* A clause (sequence of literals) is true under the set m of true variables.
ClauseHolds(m, lits) ==
    \E i \in 1..Len(lits) :
        \/ lits[i] > 0 /\ lits[i] \in m
        \/ lits[i] < 0 /\ -lits[i] \notin m

AllNegative(lits) == \A i \in 1..Len(lits) : lits[i] < 0

\* Ways to add exactly k variables of pool to acc without breaking a clause of
\* negs (clauses of negative literals only: breaking one is final).
RECURSIVE Pick(_, _, _, _)
Pick(pool, k, acc, negs) ==
    IF k = 0 THEN {acc}
    ELSE IF k < 0 \/ Cardinality(pool) < k THEN {}
    ELSE LET x == CHOOSE y \in pool : TRUE
             with == acc \cup {x}
         IN  (IF \A c \in negs : ClauseHolds(with, c)
              THEN Pick(pool \ {x}, k - 1, with, negs) ELSE {})
             \cup Pick(pool \ {x}, k, acc, negs)

\* The partial assignments accs (over the variables in decided) extended
\* through the remaining cardinality blocks.
RECURSIVE ThroughBlocks(_, _, _, _)
ThroughBlocks(blocks, accs, decided, negs) ==
    IF blocks = <<>> THEN [accs |-> accs, decided |-> decided]
    ELSE LET ls == Range(Head(blocks).lits)
             next == UNION {Pick(ls \ decided,
                                 Head(blocks).bound - Cardinality(acc \cap ls),
                                 acc, negs) : acc \in accs}
         IN  ThroughBlocks(Tail(blocks), next, decided \cup ls, negs)

\* Every satisfying assignment of enc.cnf, as the set of true variables among
\* those of reverse_variables.
SatisfyingAssignments(enc) ==
    LET blocks  == SelectSeq(enc.cnf, LAMBDA c : c.type = "equals")
        clauses == {c.lits : c \in {x \in Range(enc.cnf) : x.type = "clause"}}
        negs    == {c \in clauses : AllNegative(c)}
        done    == ThroughBlocks(blocks, {{}}, {}, negs)
        free    == DOMAIN enc.reverse_variables \ done.decided
    IN  {m \in UNION {{acc \cup f : f \in SUBSET free} : acc \in done.accs} :
            \A c \in clauses : ClauseHolds(m, c)}

\* get_model() for the assignment m: tuple variables by m; the auxiliary
\* variables of the cardinality blocks are reported true.
GetModel(enc, m) ==
    [v \in 1..(enc.next_var - 1) |->
        IF v \in DOMAIN enc.reverse_variables /\ v \notin m THEN -v ELSE v]

\* ScheduleSolver.extract_schedule.
ExtractSchedule(enc, model) ==
    LET reverse_mapping == enc.reverse_variables
        kept == SelectSeq(model, LAMBDA var : var > 0 /\ var \in DOMAIN reverse_mapping)
    IN  Map(LAMBDA var : reverse_mapping[var], kept)

NewSolver == [created |-> 0, open |-> FALSE, model |-> <<>>]

(***************************************************************************)
(* ScheduleGenerator.generate.                                             *)
(***************************************************************************)
MsgResourceConflict == "No solution: resource conflicts make the schedule impossible (teacher, room, or student overlap in at least one time slot). Try: more time slots, more teachers, or more rooms."

MsgCapacityOrAvailability == "No solution: some (lesson, group) pairs have no valid (teacher, room, time slot) after room capacity and teacher/room unavailability. Check room capacity and teacher/room availability constraints."

MsgInfeasiblePrefix == "Infeasible: "

\* Mutant: every entry is filed under class_group_id.
ScheduleEntry_AlwaysClass(group_types, key) ==
    [lesson_id      |-> key[1],
     teacher_id     |-> key[2],
     room_id        |-> key[4],
     time_slot_id   |-> key[5],
     class_group_id |-> key[3],
     study_group_id |-> NoneId]

\* One schedule entry of the success branch.
ScheduleEntry(group_types, key) ==
    LET is_class == Get(group_types, key[3], "class_group") = "class_group"
    IN  [lesson_id      |-> key[1],
         teacher_id     |-> key[2],
         room_id        |-> key[4],
         time_slot_id   |-> key[5],
         class_group_id |-> IF is_class THEN key[3] ELSE NoneId,
         study_group_id |-> IF is_class THEN NoneId ELSE key[3]]

\* Mutant: the two diagnostics are exchanged.
DiagnosticMessage_Swapped(diag_sat) ==
    IF diag_sat THEN MsgCapacityOrAvailability ELSE MsgResourceConflict

\* The message of the second (diagnostic) solve.
DiagnosticMessage(diag_sat) ==
    IF diag_sat THEN MsgResourceConflict ELSE MsgCapacityOrAvailability

\* Mutant: the diagnostic encoder keeps the conflict clauses.
DiagEncoder_Full(dt) ==
    EncodeCustomConstraints(
        EncodeHardConstraints(EncodeVariables(NewEncoder, dt), dt, FALSE),
        dt.constraints)

\* The encoder of the diagnostic branch, built from scratch.
DiagEncoder(dt) ==
    EncodeCustomConstraints(
        EncodeHardConstraints(EncodeVariables(NewEncoder, dt), dt, TRUE),
        dt.constraints)

\* Mutant: a failure still carries an (empty) entry list.
Fail_WithEntries(msg) ==
    [success |-> FALSE, schedule_entries |-> SomeEntries(<<>>), error_message |-> Text(msg)]

\* return False, None, msg
Fail(msg) ==
    [success |-> FALSE, schedule_entries |-> NoEntries, error_message |-> Text(msg)]

\* "Infeasible: " + "; ".join(f"lesson {l} group {g}: {r}" for l, g, r in infeasible)
InfeasibleMessage(infeasible) ==
    [is_none |-> FALSE,
     prefix  |-> MsgInfeasiblePrefix,
     parts   |-> Map(LAMBDA t : [lesson |-> Str(t[1]), group |-> Str(t[2]),
                                 reason |-> t[3]], infeasible)]

NoResult ==
    [success |-> FALSE, schedule_entries |-> NoEntries, error_message |-> Text("pending")]

(***************************************************************************)
(* Persistence states explored.  Three families of institutions share the  *)
(* lessons L1, L2, the teachers 1, 2 and the rooms r1, r2 (r2 is the large *)
(* room): Resources varies capability, demand, sizes and slots over two    *)
(* class groups; Students varies study-group membership; Custom varies one *)
(* stored constraint.                                                      *)
(***************************************************************************)
L1 == U("L1")

L2 == U("L2")

CG1 == U("c1")

CG2 == U("c2")

SGA == U("sa")

SGB == U("sb")

R1 == U("r1")

R2 == U("r2")

SlotNames == <<"s1", "s2", "s3", "s4">>

TimeSlots(n) == [i \in 1..n |-> U(SlotNames[i])]

StudentX == U("x")

StudentY == U("y")

Row(g, l, n) == [group_id |-> g, lesson_id |-> l, count |-> n]

TeacherLessonRows(t1, t2) ==
    SeqOfSet({[teacher_id |-> 1, lesson_id |-> l] : l \in t1}
             \cup {[teacher_id |-> 2, lesson_id |-> l] : l \in t2})

Rooms(cap1) ==
    <<[id |-> R1, capacity |-> cap1], [id |-> R2, capacity |-> MaxCapacity]>>

BaseDb ==
    [lessons  |-> <<L1, L2>>,
     teachers |-> <<1, 2>>,
     class_groups |-> <<[id |-> CG1, student_count |-> 1],
                        [id |-> CG2, student_count |-> MaxCapacity]>>,
     study_groups |-> <<>>,
     rooms |-> Rooms(MaxCapacity),
     time_slots |-> TimeSlots(1),
     teacher_lessons |-> TeacherLessonRows({L1}, {L2}),
     class_group_lessons |-> <<>>,
     study_group_lessons |-> <<>>,
     students |-> <<>>,
     study_group_students |-> <<>>,
     constraints |-> <<>>]

\* A first demand row on (g1, L1), or none, then a second row or none.
DemandRows(g1, others) ==
    LET first  == {<<>>} \cup {<<Row(g1, L1, n)>> : n \in 0..MaxCount}
        second == {<<>>} \cup {<<Row(c[1], c[2], n)>> : c \in others, n \in 0..MaxCount}
    IN  {a \o b : a \in first, b \in second}

ResourcesDbs ==
    {[BaseDb EXCEPT
        !.time_slots = TimeSlots(ns),
        !.teacher_lessons = TeacherLessonRows(t1, t2),
        !.class_groups = <<[id |-> CG1, student_count |-> size1],
                           [id |-> CG2, student_count |-> MaxCapacity]>>,
        !.rooms = Rooms(cap1),
        !.class_group_lessons = rows] :
        ns \in 1..MaxSlots, t1 \in SUBSET {L1, L2}, t2 \in SUBSET {L1, L2},
        size1 \in 1..(MaxCapacity + 1), cap1 \in 1..MaxCapacity,
        rows \in DemandRows(CG1, {<<CG1, L2>>, <<CG2, L1>>, <<CG2, L2>>})}

\* study_group_students rows: x in the study groups xs, y in the study groups ys.
MembershipRows(xs, ys) ==
    SeqOfSet({[study_group_id |-> g, student_id |-> StudentX] : g \in xs}
             \cup {[study_group_id |-> g, student_id |-> StudentY] : g \in ys})

StudentsDbs ==
    {[BaseDb EXCEPT
        !.time_slots = TimeSlots(ns),
        !.teacher_lessons = TeacherLessonRows(t1, {L2}),
        !.study_groups = <<SGA, SGB>>,
        !.rooms = Rooms(cap1),
        !.students = <<[id |-> StudentX, class_group_id |-> CG1],
                       [id |-> StudentY, class_group_id |-> CG2]>>,
        !.study_group_students = MembershipRows(xs, ys),
        !.class_group_lessons = SelectSeq(rows, LAMBDA r : r.group_id = CG1),
        !.study_group_lessons = SelectSeq(rows, LAMBDA r : r.group_id # CG1)] :
        ns \in 1..MaxSlots, t1 \in {{L1}, {L1, L2}}, cap1 \in 1..MaxCapacity,
        xs \in SUBSET {SGA, SGB}, ys \in SUBSET {SGB},
        rows \in {<<Row(g1, L1, 1), Row(g2, L2, 1)>> :
                    g1 \in {CG1, SGA}, g2 \in {SGA, SGB}}}

\* Payloads as the JSON column returns them: identifiers are strings.
StoredConstraints ==
    LET slots == {<<S("s1")>>, <<S("s2")>>, <<S("s1"), S("s2")>>}
    IN  {[constraint_type |-> "teacher_unavailable", priority |-> p,
          constraint_data |-> [teacher_id |-> t, time_slot_ids |-> ss]] :
            p \in {0, 1}, t \in {1, 2}, ss \in slots}
        \cup
        {[constraint_type |-> "room_unavailable", priority |-> p,
          constraint_data |-> [room_id |-> S(r), time_slot_ids |-> ss]] :
            p \in {0, 1}, r \in {"r1", "r2"}, ss \in slots}
        \cup
        {[constraint_type |-> "class_preference", priority |-> 0,
          constraint_data |-> [class_group_id |-> S("c1"), max_daily_lessons |-> 1]]}

\* Stored constraints of the kinds encode_custom_constraints has no clause
\* for, and of a kind it does not know.
OtherKindConstraints ==
    {[constraint_type |-> "class_preference", priority |-> 0,
      constraint_data |-> [class_group_id |-> S("c1"), max_daily_lessons |-> 1]],
     [constraint_type |-> "study_group_preference", priority |-> 1,
      constraint_data |-> [study_group_id |-> S("sa"), max_daily_lessons |-> 1]],
     [constraint_type |-> "consecutive_preference", priority |-> 1,
      constraint_data |-> [teacher_id |-> 1, time_slot_ids |-> <<S("s1")>>]],
     [constraint_type |-> "lunch_break", priority |-> 1,
      constraint_data |-> [teacher_id |-> 1, time_slot_ids |-> <<S("s1")>>]]}

\* The constraint rows of one institution: one row, or a row of another
\* kind next to an unavailability row, in either order.
ConstraintRows ==
    LET beside == {c \in StoredConstraints :
                      /\ c.priority = 1
                      /\ c.constraint_data.time_slot_ids = <<S("s1")>>
                      /\ c.constraint_type = "teacher_unavailable"
                            => c.constraint_data.teacher_id = 1
                      /\ c.constraint_type = "room_unavailable"
                            => c.constraint_data.room_id = S("r1")}
    IN  {<<c>> : c \in StoredConstraints \cup OtherKindConstraints}
        \cup {<<k, c>> : k \in OtherKindConstraints, c \in beside}
        \cup {<<c, k>> : k \in OtherKindConstraints, c \in beside}

CustomDbs ==
    {[BaseDb EXCEPT
        !.time_slots = TimeSlots(ns),
        !.teacher_lessons = TeacherLessonRows(t1, {L2}),
        !.class_group_lessons = <<Row(CG1, L1, n1), Row(CG2, L2, 1)>>,
        !.constraints = cs] :
        ns \in 1..MaxSlots, t1 \in {{L1}, {L1, L2}}, n1 \in 1..MaxCount,
        cs \in ConstraintRows}

\* Institutions in which whole tables are empty.  Rows that refer to a
\* missing lesson, teacher or group do not exist (foreign keys).
EmptinessDbs ==
    {[BaseDb EXCEPT
        !.lessons = IF hl THEN <<L1, L2>> ELSE <<>>,
        !.teachers = IF ht THEN <<1, 2>> ELSE <<>>,
        !.class_groups = IF hc THEN <<[id |-> CG1, student_count |-> 1]>> ELSE <<>>,
        !.study_groups = IF hs THEN <<SGA>> ELSE <<>>,
        !.rooms = IF hr THEN Rooms(MaxCapacity) ELSE <<>>,
        !.time_slots = IF hz THEN TimeSlots(1) ELSE <<>>,
        !.teacher_lessons = IF hl /\ ht THEN TeacherLessonRows(t1, t2) ELSE <<>>,
        !.class_group_lessons = IF hl /\ hc THEN <<Row(CG1, L1, nc)>> ELSE <<>>,
        !.study_group_lessons = IF hl /\ hs THEN <<Row(SGA, L2, nz)>> ELSE <<>>] :
        hl \in BOOLEAN, ht \in BOOLEAN, hc \in BOOLEAN, hs \in BOOLEAN,
        hr \in BOOLEAN, hz \in BOOLEAN,
        t1 \in {{}, {L1}}, t2 \in {{}, {L2}}, nc \in 0..1, nz \in 0..1}

(***************************************************************************)
(* The debug log of generate: the payload {"institution_id", "timeout",    *)
(* "data"} after _serialize_for_debug_log, written to one fixed path.  The *)
(* write is taken to succeed (the except branch only logs a warning).      *)
(* written_by names the call whose json.dump produced the content.         *)
(***************************************************************************)
InstitutionId == U("inst")

\* str(obj) for a UUID; None stays None.
SerializeId(id) == IF id = NoneId THEN NoneId ELSE Str(id)

\* A dict with UUID keys: the keys become str, the values go through f.
SerializeKeys(d) ==
    [k \in {Str(g) : g \in DOMAIN d} |-> d[CHOOSE g \in DOMAIN d : Str(g) = k]]

\* {group: {lesson: count}} with both levels of keys as str.
SerializeGroupLessons(d) ==
    [keys |-> [i \in 1..Len(d.keys) |-> Str(d.keys[i])],
     val  |-> [k \in {Str(g) : g \in Range(d.keys)} |->
                 LET items == d.val[CHOOSE g \in Range(d.keys) : Str(g) = k]
                 IN  [i \in 1..Len(items) |-> <<Str(items[i][1]), items[i][2]>>]]]

SerializeMemberships(d) ==
    [keys |-> [i \in 1..Len(d.keys) |-> Str(d.keys[i])],
     val  |-> [k \in {Str(g) : g \in Range(d.keys)} |->
                 LET m == d.val[CHOOSE g \in Range(d.keys) : Str(g) = k]
                 IN  [class_group_id  |-> SerializeId(m.class_group_id),
                      study_group_ids |-> [i \in 1..Len(m.study_group_ids) |->
                                              Str(m.study_group_ids[i])]]]]

SerializeForDebugLog(t, dt) ==
    [institution_id |-> Str(InstitutionId),
     timeout |-> t,
     data |->
       [lessons      |-> [i \in 1..Len(dt.lessons) |-> Str(dt.lessons[i])],
        teachers     |-> dt.teachers,
        class_groups |-> [i \in 1..Len(dt.class_groups) |-> Str(dt.class_groups[i])],
        study_groups |-> [i \in 1..Len(dt.study_groups) |-> Str(dt.study_groups[i])],
        rooms        |-> [i \in 1..Len(dt.rooms) |-> Str(dt.rooms[i])],
        time_slots   |-> [i \in 1..Len(dt.time_slots) |-> Str(dt.time_slots[i])],
        teacher_lessons |-> [tid \in DOMAIN dt.teacher_lessons |->
                                SeqOfSet({Str(l) : l \in dt.teacher_lessons[tid]})],
        class_group_lessons |-> SerializeGroupLessons(dt.class_group_lessons),
        study_group_lessons |-> SerializeGroupLessons(dt.study_group_lessons),
        room_capacities   |-> SerializeKeys(dt.room_capacities),
        class_group_sizes |-> SerializeKeys(dt.class_group_sizes),
        study_group_sizes |-> SerializeKeys(dt.study_group_sizes),
        student_group_memberships |-> SerializeMemberships(dt.student_group_memberships),
        constraints |-> dt.constraints]]

\* The file before any call has written it.
NoDebugFile == [exists |-> FALSE]

DebugFile(call, t, dt) ==
    [exists |-> TRUE, written_by |-> call, content |-> SerializeForDebugLog(t, dt)]

(***************************************************************************)
(* The generate_schedule route: two requests for one existing schedule of  *)
(* the current user.  A stored entry is [id, row]: the uuid4 of the        *)
(* ScheduleEntry object and the columns copied from the returned entry.    *)
(***************************************************************************)
Requests == {1, 2}

NewRequest ==
    [pc |-> "start", checked |-> <<>>, data |-> <<>>, logged |-> FALSE,
     result |-> NoResult, old_entries |-> {}, concurrent_with |-> {}]

\* status="draft", generated_at NULL (0), no entries.
DraftSchedule == [status |-> "draft", generated_at |-> 0, entries |-> {}]

RouteIdle ==
    /\ debug_file = NoDebugFile
    /\ schedule = DraftSchedule
    /\ requests = [r \in Requests |-> NewRequest]

Init ==
    /\ db \in ResourcesDbs \cup StudentsDbs \cup CustomDbs \cup EmptinessDbs
    /\ timeout = DefaultTimeout
    /\ pc = "start"
    /\ data = <<>>
    /\ encoders = 0
    /\ encoder = NewEncoder
    /\ diag = NewEncoder
    /\ solver = NewSolver
    /\ elapsed = <<>>
    /\ result = NoResult
    /\ RouteIdle

\* Mutant: the validator's verdict is not looked at.
Validate_Continues ==
    /\ pc = "start"
    /\ pc' = "validated"
    /\ UNCHANGED <<debug_file, schedule, requests, db, timeout, encoders, data, encoder, diag, solver, elapsed, result>>

\* is_valid, error = await self.validate_input(institution_id)
Validate ==
    /\ pc = "start"
    /\ LET error == ValidateInput(BuildFromInstitution(db))
       IN  IF error # NoError
           THEN /\ result' = Fail(error)
                /\ pc' = "done"
           ELSE /\ pc' = "validated"
                /\ UNCHANGED result
    /\ UNCHANGED <<debug_file, schedule, requests, db, timeout, encoders, data, encoder, diag, solver, elapsed>>

\* data = await self.constraint_builder.build_from_institution(institution_id)
Build ==
    /\ pc = "validated"
    /\ data' = BuildFromInstitution(db)
    /\ pc' = "built"
    /\ UNCHANGED <<debug_file, schedule, requests, db, timeout, encoders, encoder, diag, solver, elapsed, result>>

\* json.dump of the debug payload; encoder = ScheduleEncoder();
\* encoder.encode_variables(...)
DoEncodeVariables ==
    /\ pc = "built"
    /\ debug_file' = DebugFile(0, timeout, data)
    /\ encoder' = EncodeVariables(NewEncoder, data)
    /\ encoders' = encoders + 1
    /\ pc' = "encoded"
    /\ UNCHANGED <<schedule, requests, db, timeout, data, diag, solver, elapsed, result>>

\* Mutant: the prober's report does not stop the request.
Probe_Continues ==
    /\ pc = "encoded"
    /\ pc' = "probed"
    /\ UNCHANGED <<debug_file, schedule, requests, db, timeout, encoders, data, encoder, diag, solver, elapsed, result>>

\* infeasible = encoder.get_infeasible_pairs(...); if infeasible: return ...
Probe ==
    /\ pc = "encoded"
    /\ LET infeasible == GetInfeasiblePairs(encoder, data)
       IN  IF infeasible # <<>>
           THEN /\ result' = [success |-> FALSE, schedule_entries |-> NoEntries,
                              error_message |-> InfeasibleMessage(infeasible)]
                /\ pc' = "done"
           ELSE /\ pc' = "probed"
                /\ UNCHANGED result
    /\ UNCHANGED <<debug_file, schedule, requests, db, timeout, encoders, data, encoder, diag, solver, elapsed>>

\* encoder.encode_hard_constraints(...)
DoEncodeHard ==
    /\ pc = "probed"
    /\ encoder' = EncodeHardConstraints(encoder, data, FALSE)
    /\ pc' = "hard"
    /\ UNCHANGED <<debug_file, schedule, requests, db, timeout, encoders, data, diag, solver, elapsed, result>>

\* encoder.encode_custom_constraints(data["constraints"])
DoEncodeCustom ==
    /\ pc = "hard"
    /\ encoder' = EncodeCustomConstraints(encoder, data.constraints)
    /\ pc' = "custom"
    /\ UNCHANGED <<debug_file, schedule, requests, db, timeout, encoders, data, diag, solver, elapsed, result>>

\* The wall-clock durations a blocking solve() call may take: set_timeout is
\* no method of the pysat Solver, the AttributeError is swallowed, and the
\* call returns only when the search is complete.
SolveDurations(t) == {t, t + 1}

\* with ScheduleSolver(encoder) as solver: solver.solve(timeout=timeout)
Solve ==
    /\ pc = "custom"
    /\ LET models == SatisfyingAssignments(encoder)
       IN  IF models # {}
           THEN /\ \E m \in models :
                     solver' = [created |-> solver.created + 1, open |-> TRUE,
                                model |-> GetModel(encoder, m)]
                /\ pc' = "sat"
           ELSE /\ solver' = [created |-> solver.created + 1, open |-> TRUE,
                              model |-> <<>>]
                /\ pc' = "unsat"
    /\ \E d \in SolveDurations(timeout) : elapsed' = Append(elapsed, d)
    /\ UNCHANGED <<debug_file, schedule, requests, db, timeout, encoders, data, encoder, diag, result>>

\* schedule = solver.extract_schedule(); ...; return True, schedule_entries, None
Extract ==
    /\ pc = "sat"
    /\ result' = [success |-> TRUE,
                  schedule_entries |-> SomeEntries(
                      Map(LAMBDA key : ScheduleEntry(encoder.group_types, key),
                          ExtractSchedule(encoder, solver.model))),
                  error_message |-> NoMessage]
    /\ solver' = [solver EXCEPT !.open = FALSE]
    /\ pc' = "done"
    /\ UNCHANGED <<debug_file, schedule, requests, db, timeout, encoders, data, encoder, diag, elapsed>>

\* diag = ScheduleEncoder(); the three encode calls with skip_conflicts=True
DoDiagEncode ==
    /\ pc = "unsat"
    /\ diag' = DiagEncoder(data)
    /\ encoders' = encoders + 1
    /\ pc' = "diag"
    /\ UNCHANGED <<debug_file, schedule, requests, db, timeout, data, encoder, solver, elapsed, result>>

\* with ScheduleSolver(diag) as diag_solver: diag_solver.solve(timeout=timeout)
DiagSolve ==
    /\ pc = "diag"
    /\ result' = Fail(DiagnosticMessage(SatisfyingAssignments(diag) # {}))
    /\ solver' = [created |-> solver.created + 1, open |-> FALSE, model |-> <<>>]
    /\ \E d \in SolveDurations(timeout) : elapsed' = Append(elapsed, d)
    /\ pc' = "done"
    /\ UNCHANGED <<debug_file, schedule, requests, db, timeout, encoders, data, encoder, diag>>

Next ==
    \/ Validate
    \/ Build
    \/ DoEncodeVariables
    \/ Probe
    \/ DoEncodeHard
    \/ DoEncodeCustom
    \/ Solve
    \/ Extract
    \/ DoDiagEncode
    \/ DiagSolve

Spec == Init /\ [][Next]_vars

(***************************************************************************)
(* Two runs of the three encoding steps on one bundle.  The only           *)
(* collection the encoder walks that is not a list or a dict is the set    *)
(* overlapping_sg_pairs; each run may visit it in any order.               *)
(***************************************************************************)
SGC == U("sc")

\* Institutions with three study groups, student x in at least two of them.
TwoRunsDbs ==
    {[BaseDb EXCEPT
        !.time_slots = TimeSlots(ns),
        !.study_groups = <<SGA, SGB, SGC>>,
        !.students = <<[id |-> StudentX, class_group_id |-> CG1],
                       [id |-> StudentY, class_group_id |-> CG2]>>,
        !.study_group_students = MembershipRows(xs, ys),
        !.class_group_lessons = <<Row(CG1, L1, 1)>>,
        !.study_group_lessons = <<Row(SGA, L1, n), Row(SGB, L2, 1), Row(SGC, L2, 1)>>,
        !.constraints = cs] :
        ns \in 1..MaxSlots, n \in 1..MaxCount,
        xs \in {{SGA, SGB}, {SGA, SGB, SGC}}, ys \in {{}, {SGB, SGC}},
        cs \in {<<>>} \cup {<<c>> : c \in OtherKindConstraints}}

\* The orders in which a set can be visited.
Orders(xs) ==
    {f \in [1..Cardinality(xs) -> xs] : \A i, j \in 1..Cardinality(xs) : f[i] = f[j] => i = j}

\* encode_variables, encode_hard_constraints, encode_custom_constraints on a
\* fresh encoder.
EncodeRun(dt, pairs) ==
    EncodeCustomConstraints(
        EncodeHardConstraintsIn(EncodeVariables(NewEncoder, dt), dt, FALSE, pairs),
        dt.constraints)

InitTwoRuns ==
    /\ db \in TwoRunsDbs
    /\ timeout = DefaultTimeout
    /\ pc = "start"
    /\ data = <<>>
    /\ encoders = 0
    /\ encoder = NewEncoder
    /\ diag = NewEncoder
    /\ solver = NewSolver
    /\ elapsed = <<>>
    /\ result = NoResult
    /\ RouteIdle

FirstRun ==
    /\ pc = "built"
    /\ \E pairs \in Orders(OverlappingSgPairs(data)) : encoder' = EncodeRun(data, pairs)
    /\ encoders' = encoders + 1
    /\ pc' = "first_run"
    /\ UNCHANGED <<debug_file, schedule, requests, db, timeout, data, diag, solver, elapsed, result>>

SecondRun ==
    /\ pc = "first_run"
    /\ \E pairs \in Orders(OverlappingSgPairs(data)) : diag' = EncodeRun(data, pairs)
    /\ encoders' = encoders + 1
    /\ pc' = "second_run"
    /\ UNCHANGED <<debug_file, schedule, requests, db, timeout, data, encoder, solver, elapsed, result>>

NextTwoRuns ==
    \/ Validate
    \/ Build
    \/ FirstRun
    \/ SecondRun

SpecTwoRuns == InitTwoRuns /\ [][NextTwoRuns]_vars

(***************************************************************************)
(* The encoder's methods called on caller-provided lists: the bundles of   *)
(* the Students institutions, with the first identifier of some of the     *)
(* lists passed a second time.                                             *)
(***************************************************************************)
ListNames == {"lessons", "teachers", "class_groups", "rooms", "time_slots"}

Repeated(list) == IF list = <<>> THEN list ELSE Append(list, list[1])

\* The bundle dt with the lists named in dup holding a duplicate.
WithDuplicates(dt, dup) ==
    [dt EXCEPT
        !.lessons      = IF "lessons" \in dup THEN Repeated(@) ELSE @,
        !.teachers     = IF "teachers" \in dup THEN Repeated(@) ELSE @,
        !.class_groups = IF "class_groups" \in dup THEN Repeated(@) ELSE @,
        !.rooms        = IF "rooms" \in dup THEN Repeated(@) ELSE @,
        !.time_slots   = IF "time_slots" \in dup THEN Repeated(@) ELSE @]

InitEncoder ==
    /\ db \in StudentsDbs
    /\ timeout = DefaultTimeout
    /\ pc = "built"
    /\ data \in {WithDuplicates(BuildFromInstitution(db), dup) : dup \in SUBSET ListNames}
    /\ encoders = 0
    /\ encoder = NewEncoder
    /\ diag = NewEncoder
    /\ solver = NewSolver
    /\ elapsed = <<>>
    /\ result = NoResult
    /\ RouteIdle

NextEncoder ==
    \/ DoEncodeVariables
    \/ Probe
    \/ DoEncodeHard
    \/ DoEncodeCustom

SpecEncoder == InitEncoder /\ [][NextEncoder]_vars

(***************************************************************************)
(* generate_schedule requests served by one event loop.  A request yields  *)
(* only at its awaits: the select of the schedule, the bundle query of     *)
(* validate_input, the bundle query of generate, the select of the stored  *)
(* entries, and the commit.  From the return of the second bundle query to *)
(* the select of the stored entries generate runs without yielding.        *)
(* Between two steps of a request another request of the API may commit a  *)
(* change of the institution's demand rows.                                *)
(***************************************************************************)
\* Every result the synchronous part of generate can return for a bundle.
GenerateOutcomes(dt) ==
    LET variables_only == EncodeVariables(NewEncoder, dt)
        infeasible == GetInfeasiblePairs(variables_only, dt)
        full == EncodeCustomConstraints(
                    EncodeHardConstraints(variables_only, dt, FALSE), dt.constraints)
        models == SatisfyingAssignments(full)
    IN  IF infeasible # <<>>
        THEN {[success |-> FALSE, schedule_entries |-> NoEntries,
               error_message |-> InfeasibleMessage(infeasible)]}
        ELSE IF models # {}
        THEN {[success |-> TRUE,
               schedule_entries |-> SomeEntries(
                   Map(LAMBDA key : ScheduleEntry(full.group_types, key),
                       ExtractSchedule(full, GetModel(full, m)))),
               error_message |-> NoMessage] : m \in models}
        ELSE {Fail(DiagnosticMessage(SatisfyingAssignments(DiagEncoder(dt)) # {}))}

\* Institutions of the requests: teacher 1 teaches L1, nobody teaches L2,
\* one time slot, two rooms; the demand rows vary.
RouteDemandRows ==
    {<<Row(CG1, L1, 1)>>,
     <<Row(CG1, L1, 2)>>,
     <<Row(CG1, L1, 1), Row(CG1, L2, 1)>>,
     <<>>}

RouteDbs ==
    {[BaseDb EXCEPT
        !.teacher_lessons = TeacherLessonRows({L1}, {}),
        !.class_group_lessons = rows] : rows \in RouteDemandRows}

\* A schedule generated earlier: one stored entry.
GeneratedBefore ==
    [status |-> "generated", generated_at |-> 1,
     entries |-> {[id |-> <<0, 1>>,
                   row |-> ScheduleEntry(GroupTypes(<<CG1, CG2>>, <<>>),
                                         <<L1, 1, CG1, R1, U("s1")>>)]}]

InitRequests ==
    /\ db \in RouteDbs
    /\ timeout = DefaultTimeout
    /\ pc = "start"
    /\ data = <<>>
    /\ encoders = 0
    /\ encoder = NewEncoder
    /\ diag = NewEncoder
    /\ solver = NewSolver
    /\ elapsed = <<>>
    /\ result = NoResult
    /\ debug_file = NoDebugFile
    /\ schedule \in {DraftSchedule, GeneratedBefore}
    /\ requests = [r \in Requests |-> NewRequest]

\* The requests suspended inside generate.
InsideGenerate == {q \in Requests : requests[q].pc \in {"validating", "building", "built"}}

\* No request is between its first await and its response.
NoneInFlight == \A q \in Requests : requests[q].pc \in {"start", "responded"}

\* select(Schedule)...; generator = ScheduleGenerator(db); generate is entered
\* and suspends at the bundle query of validate_input.
FindSchedule(r) ==
    /\ requests[r].pc = "start"
    /\ requests' = [q \in Requests |->
          IF q = r
          THEN [requests[q] EXCEPT !.pc = "validating", !.concurrent_with = InsideGenerate]
          ELSE IF q \in InsideGenerate
          THEN [requests[q] EXCEPT !.concurrent_with = @ \cup {r}]
          ELSE requests[q]]
    /\ UNCHANGED <<debug_file, schedule, db, timeout, pc, data, encoders, encoder, diag,
                   solver, elapsed, result>>

\* validate_input: its own build_from_institution, then the checks; on a
\* failure generate returns and the route answers success=False.
CheckInput(r) ==
    /\ requests[r].pc = "validating"
    /\ LET checked == BuildFromInstitution(db)
           error == ValidateInput(checked)
       IN  requests' = [requests EXCEPT
               ![r].checked = checked,
               ![r].result = IF error # NoError THEN Fail(error) ELSE @,
               ![r].pc = IF error # NoError THEN "responded" ELSE "building"]
    /\ UNCHANGED <<debug_file, schedule, db, timeout, pc, data, encoders, encoder, diag,
                   solver, elapsed, result>>

\* data = await self.constraint_builder.build_from_institution(institution_id)
BuildBundle(r) ==
    /\ requests[r].pc = "building"
    /\ requests' = [requests EXCEPT ![r].data = BuildFromInstitution(db),
                                    ![r].pc = "built"]
    /\ UNCHANGED <<debug_file, schedule, db, timeout, pc, data, encoders, encoder, diag,
                   solver, elapsed, result>>

\* The debug log, the encoder, the prober and the solver; on a failure the
\* route answers success=False, otherwise it awaits the stored entries.
GenerateSync(r) ==
    /\ requests[r].pc = "built"
    /\ debug_file' = DebugFile(r, timeout, requests[r].data)
    /\ \E res \in GenerateOutcomes(requests[r].data) :
          requests' = [requests EXCEPT
              ![r].logged = TRUE,
              ![r].result = res,
              ![r].pc = IF res.success THEN "selecting" ELSE "responded"]
    /\ UNCHANGED <<schedule, db, timeout, pc, data, encoders, encoder, diag,
                   solver, elapsed, result>>

\* old_entries = select(ScheduleEntry).where(schedule_id == ...).all()
SelectOldEntries(r) ==
    /\ requests[r].pc = "selecting"
    /\ requests' = [requests EXCEPT ![r].old_entries = schedule.entries,
                                    ![r].pc = "committing"]
    /\ UNCHANGED <<debug_file, schedule, db, timeout, pc, data, encoders, encoder, diag,
                   solver, elapsed, result>>

\* The ScheduleEntry objects request r adds, each with a fresh uuid4.
NewEntries(r) ==
    LET returned == requests[r].result.schedule_entries.list
    IN  {[id |-> <<r, i>>, row |-> returned[i]] : i \in 1..Len(returned)}

\* Mutant: the old entries are not deleted.
Commit_KeepsOld(r) ==
    /\ requests[r].pc = "committing"
    /\ schedule' = [status |-> "generated",
                    generated_at |-> schedule.generated_at + 1,
                    entries |-> schedule.entries \cup NewEntries(r)]
    /\ requests' = [requests EXCEPT ![r].pc = "responded"]
    /\ UNCHANGED <<debug_file, db, timeout, pc, data, encoders, encoder, diag,
                   solver, elapsed, result>>

\* db.delete of each selected entry, db.add of each new one, status and
\* generated_at, await db.commit().  A DELETE of a row another request has
\* already deleted matches no row and the flush goes on.
Commit(r) ==
    /\ requests[r].pc = "committing"
    /\ schedule' = [status |-> "generated",
                    generated_at |-> schedule.generated_at + 1,
                    entries |-> (schedule.entries \ requests[r].old_entries)
                                    \cup NewEntries(r)]
    /\ requests' = [requests EXCEPT ![r].pc = "responded"]
    /\ UNCHANGED <<debug_file, db, timeout, pc, data, encoders, encoder, diag,
                   solver, elapsed, result>>

\* Another request of the API replaces the demand rows of the institution.
ModifyInstitution ==
    /\ \E d \in RouteDbs \ {db} : db' = d
    /\ UNCHANGED <<debug_file, schedule, requests, timeout, pc, data, encoders, encoder,
                   diag, solver, elapsed, result>>

NextRequests ==
    \/ \E r \in Requests :
          \/ FindSchedule(r)
          \/ CheckInput(r)
          \/ BuildBundle(r)
          \/ GenerateSync(r)
          \/ SelectOldEntries(r)
          \/ Commit(r)
    \/ ModifyInstitution

SpecRequests == InitRequests /\ [][NextRequests]_vars

\* The same requests when the server takes up a request only after the
\* previous one has been answered.
NextOneAtATime ==
    \/ \E r \in Requests :
          \/ NoneInFlight /\ FindSchedule(r)
          \/ CheckInput(r)
          \/ BuildBundle(r)
          \/ GenerateSync(r)
          \/ SelectOldEntries(r)
          \/ Commit(r)
    \/ ModifyInstitution

SpecOneAtATime == InitRequests /\ [][NextOneAtATime]_vars

(***************************************************************************)
(* Vocabulary of the properties.                                           *)
(***************************************************************************)
Succeeded == pc = "done" /\ result.success

Entries == IF result.schedule_entries.is_none THEN <<>> ELSE result.schedule_entries.list

EntryGroup(e) == IF e.class_group_id # NoneId THEN e.class_group_id ELSE e.study_group_id

\* The demand maps of a bundle as a set of <<group, lesson, count>>.
DictTriples(d) ==
    UNION {{<<g, it[1], it[2]>> : it \in Range(d.val[g])} : g \in Range(d.keys)}

Demand(dt) == DictTriples(dt.class_group_lessons) \cup DictTriples(dt.study_group_lessons)

\* Positions of the returned entries of group g and lesson l.
EntriesOf(g, l) ==
    {i \in 1..Len(Entries) : EntryGroup(Entries[i]) = g /\ Entries[i].lesson_id = l}

\* Two returned entries placed in the same time slot.
SameSlot(i, j) == i # j /\ Entries[i].time_slot_id = Entries[j].time_slot_id

\* The size of a group, by its variant in the bundle.
SizeOf(dt, g) ==
    IF g \in Range(dt.study_groups) THEN dt.study_group_sizes[g]
    ELSE dt.class_group_sizes[g]

(***************************************************************************)
(* C1  Demand preservation: a successful generate returns, for every       *)
(* <<group, lesson, n>> of the demand maps, exactly n entries of that      *)
(* group and lesson, and no entry for a pair absent from the demand maps.  *)
(***************************************************************************)
C1_DemandPreserved ==
    Succeeded =>
        /\ \A p \in Demand(data) : Cardinality(EntriesOf(p[1], p[2])) = p[3]
        /\ \A i \in 1..Len(Entries) :
              \E p \in Demand(data) :
                  p[1] = EntryGroup(Entries[i]) /\ p[2] = Entries[i].lesson_id

\* A success with a pair of demand 2 next to another demanded pair.
C1_Witness ==
    /\ Succeeded
    /\ \E p, q \in Demand(data) : p # q /\ p[3] = 2 /\ q[3] = 1
    /\ Len(Entries) = 3

(***************************************************************************)
(* C2  No resource collision: in a successful result the entries of one    *)
(* time slot have pairwise distinct teachers, rooms and groups; hence the  *)
(* n entries of one group and lesson lie in n distinct time slots.         *)
(***************************************************************************)
C2_NoResourceCollision ==
    Succeeded =>
        /\ \A i, j \in 1..Len(Entries) :
              SameSlot(i, j) =>
                  /\ Entries[i].teacher_id # Entries[j].teacher_id
                  /\ Entries[i].room_id # Entries[j].room_id
                  /\ EntryGroup(Entries[i]) # EntryGroup(Entries[j])
        /\ \A p \in Demand(data) :
              Cardinality({Entries[i].time_slot_id : i \in EntriesOf(p[1], p[2])}) = p[3]

\* A success where one teacher serves two groups and where a demand of 2
\* is spread over two slots.
C2_Witness ==
    /\ Succeeded
    /\ \E i, j \in 1..Len(Entries) :
          /\ Entries[i].teacher_id = Entries[j].teacher_id
          /\ EntryGroup(Entries[i]) # EntryGroup(Entries[j])
    /\ \E p \in Demand(data) : p[3] = 2

(***************************************************************************)
(* C3  No student collision: in a successful result no time slot holds an  *)
(* entry of a student's class group and an entry of one of that student's  *)
(* study groups, nor entries of two distinct study groups of one student.  *)
(***************************************************************************)
\* Some time slot holds an entry of g and an entry of h.
Collide(g, h) ==
    \E i, j \in 1..Len(Entries) :
        SameSlot(i, j) /\ EntryGroup(Entries[i]) = g /\ EntryGroup(Entries[j]) = h

C3_NoStudentCollision ==
    Succeeded =>
        \A st \in Range(data.student_group_memberships.keys) :
            LET m == data.student_group_memberships.val[st]
            IN  \A sg \in Range(m.study_group_ids) :
                    /\ ~Collide(m.class_group_id, sg)
                    /\ \A sh \in Range(m.study_group_ids) : sh # sg => ~Collide(sg, sh)

\* A success that schedules both study groups of one student.
C3_Witness ==
    /\ Succeeded
    /\ \E st \in Range(data.student_group_memberships.keys) :
          LET m == data.student_group_memberships.val[st]
          IN  /\ Len(m.study_group_ids) = 2
              /\ \A sg \in Range(m.study_group_ids) :
                    \E i \in 1..Len(Entries) : EntryGroup(Entries[i]) = sg

(***************************************************************************)
(* C4  Capacity: every entry of a successful result is in a room whose     *)
(* capacity is at least the size of its group (class_group_sizes for a     *)
(* class group, study_group_sizes for a study group).                      *)
(***************************************************************************)
C4_CapacityRespected ==
    Succeeded =>
        \A i \in 1..Len(Entries) :
            data.room_capacities[Entries[i].room_id]
                >= SizeOf(data, EntryGroup(Entries[i]))

\* A success in a bundle where some room is too small for a scheduled group.
C4_Witness ==
    /\ Succeeded
    /\ \E i \in 1..Len(Entries) : \E r \in DOMAIN data.room_capacities :
          data.room_capacities[r] < SizeOf(data, EntryGroup(Entries[i]))

(***************************************************************************)
(* C5  Teacher capability: every entry of a successful result pairs a      *)
(* teacher with a lesson of teacher_lessons[teacher].                      *)
(***************************************************************************)
C5_TeacherCapable ==
    Succeeded =>
        \A i \in 1..Len(Entries) :
            Entries[i].lesson_id \in data.teacher_lessons[Entries[i].teacher_id]

\* A success in a bundle where some teacher cannot teach a scheduled lesson.
C5_Witness ==
    /\ Succeeded
    /\ \E i \in 1..Len(Entries) : \E t \in DOMAIN data.teacher_lessons :
          Entries[i].lesson_id \notin data.teacher_lessons[t]

(***************************************************************************)
(* C6  Custom unavailability: in a successful result no entry uses the     *)
(* teacher of a teacher_unavailable constraint of the bundle in a listed   *)
(* time slot, nor the room of a room_unavailable constraint in a listed    *)
(* time slot.                                                              *)
(***************************************************************************)
\* The same identifier, whether held as a UUID object or as its string.
SameIdentifier(a, b) == a[2] = b[2]

\* Time slot s is listed in the payload cd.
SlotListed(cd, s) ==
    \E k \in 1..Len(DataTimeSlotIds(cd)) : SameIdentifier(DataTimeSlotIds(cd)[k], s)

\* Some constraint of the bundle makes teacher t or room r unavailable in s.
Unavailable(dt, t, r, s) ==
    \E c \in Range(dt.constraints) :
        \/ /\ c.constraint_type = "teacher_unavailable"
           /\ DataTeacherId(c.constraint_data) = t
           /\ SlotListed(c.constraint_data, s)
        \/ /\ c.constraint_type = "room_unavailable"
           /\ SameIdentifier(DataRoomId(c.constraint_data), r)
           /\ SlotListed(c.constraint_data, s)

C6_UnavailabilityRespected ==
    Succeeded =>
        \A i \in 1..Len(Entries) :
            ~Unavailable(data, Entries[i].teacher_id, Entries[i].room_id,
                         Entries[i].time_slot_id)

(***************************************************************************)
(* C7  Completeness: if the input passes validate_input and some           *)
(* assignment of sessions to (teacher, room, slot) meets every demand      *)
(* count exactly and respects capability, capacity, per-slot exclusivity   *)
(* of teacher, room and group, student overlap and custom unavailability,  *)
(* then generate returns success.                                          *)
(***************************************************************************)
\* The placements <<lesson, teacher, group, room, slot>> open to one pair.
Placements(dt, g, l) ==
    {<<l, t, g, r, s>> : t \in {x \in Range(dt.teachers) : l \in dt.teacher_lessons[x]},
                         r \in {x \in Range(dt.rooms) :
                                    dt.room_capacities[x] >= SizeOf(dt, g)},
                         s \in Range(dt.time_slots)}

\* Groups g and h have a student in common, by student_group_memberships.
ShareStudent(dt, g, h) ==
    /\ g # h
    /\ \E st \in Range(dt.student_group_memberships.keys) :
          LET m == dt.student_group_memberships.val[st]
          IN  {g, h} \subseteq {m.class_group_id} \cup Range(m.study_group_ids)

\* Two placements that cannot both be in a schedule.
Clash(dt, a, b) ==
    /\ a # b
    /\ a[5] = b[5]
    /\ \/ a[2] = b[2]
       \/ a[4] = b[4]
       \/ a[3] = b[3]
       \/ ShareStudent(dt, a[3], b[3])

RECURSIVE Placeable(_, _, _)
Placeable(dt, pairs, placed) ==
    IF pairs = <<>> THEN TRUE
    ELSE LET p == Head(pairs)
             open == {x \in Placements(dt, p[1], p[2]) :
                        /\ ~Unavailable(dt, x[2], x[4], x[5])
                        /\ \A y \in placed : ~Clash(dt, x, y)}
         IN  \E sub \in SUBSET open :
                /\ Cardinality(sub) = p[3]
                /\ \A a, b \in sub : ~Clash(dt, a, b)
                /\ Placeable(dt, Tail(pairs), placed \cup sub)

FeasibleScheduleExists(dt) == Placeable(dt, SeqOfSet(Demand(dt)), {})

PassedValidation == ValidateInput(BuildFromInstitution(db)) = NoError

C7_FeasibleSucceeds ==
    (pc = "done" /\ ~result.success /\ PassedValidation)
        => ~FeasibleScheduleExists(BuildFromInstitution(db))

(***************************************************************************)
(* C8  Resource-conflict diagnostic: when the solver has run, the full     *)
(* formula is unsatisfiable and the formula without its conflict           *)
(* (two-literal at-most-one) clauses is satisfiable, generate fails with   *)
(* the resource-conflict message, which names resource conflicts and is    *)
(* not the generic message.                                                *)
(***************************************************************************)
MsgGeneric == "Constraints may be too restrictive"

\* The messages of generate that contain "resource" or "conflict".
NamesResourceOrConflict == {MsgResourceConflict}

\* enc.cnf without the clauses of two literals.
WithoutConflicts(enc) ==
    [enc EXCEPT !.cnf = SelectSeq(@, LAMBDA c : c.type = "equals" \/ Len(c.lits) = 1)]

FullUnsat == pc = "done" /\ solver.created >= 1 /\ SatisfyingAssignments(encoder) = {}

StrippedSat == SatisfyingAssignments(WithoutConflicts(encoder)) # {}

C8_ResourceConflictDiagnosed ==
    (FullUnsat /\ StrippedSat) =>
        /\ result = Fail(MsgResourceConflict)
        /\ result.error_message.prefix \in NamesResourceOrConflict
        /\ result.error_message.prefix # MsgGeneric

\* The diagnostic given because two study groups of one student compete for
\* the only time slot, with teachers and rooms to spare.
C8_Witness ==
    /\ FullUnsat /\ StrippedSat
    /\ result.error_message = Text(MsgResourceConflict)
    /\ Len(data.time_slots) = 1
    /\ \E p \in OverlappingSgPairs(data) :
          \A g \in p : \E d \in Demand(data) : d[1] = g /\ d[3] = 1
    /\ SatisfyingAssignments(
          [encoder EXCEPT !.cnf = SelectSeq(@, LAMBDA c :
              c \notin Range(StudyPairClauses(encoder, data)))]) # {}

(***************************************************************************)
(* C9  Capacity-or-unavailability diagnostic: when the solver has run and  *)
(* both the full formula and the formula without conflict clauses are      *)
(* unsatisfiable, generate fails with the capacity-or-unavailability       *)
(* message and not with the resource-conflict message.                     *)
(***************************************************************************)
C9_CapacityDiagnosed ==
    (FullUnsat /\ ~StrippedSat) =>
        /\ result = Fail(MsgCapacityOrAvailability)
        /\ result.error_message # Text(MsgResourceConflict)

\* Both formulas unsatisfiable although the prober reported nothing.
C9_Witness ==
    /\ FullUnsat /\ ~StrippedSat
    /\ result.error_message = Text(MsgCapacityOrAvailability)
    /\ GetInfeasiblePairs(encoder, data) = <<>>

(***************************************************************************)
(* C10  Timeout: when a solve call runs longer than the timeout given to   *)
(* generate, generate reports a timeout: it neither succeeds nor returns   *)
(* the resource-conflict or capacity-or-unavailability diagnostic.         *)
(***************************************************************************)
TimedOut == \E i \in 1..Len(elapsed) : elapsed[i] > timeout

C10_TimeoutReported ==
    (pc = "done" /\ TimedOut) =>
        /\ ~result.success
        /\ result.error_message \notin
              {Text(MsgResourceConflict), Text(MsgCapacityOrAvailability)}

(***************************************************************************)
(* C11  Prober abort: if get_infeasible_pairs reports at least one pair,   *)
(* generate returns the failure whose message starts with "Infeasible: "   *)
(* and lists every reported pair with its reason; no clause is ever added  *)
(* to a CNF and no solver is created or invoked.                           *)
(***************************************************************************)
\* What the prober reports on the variables of a fresh encoder.
Reported == GetInfeasiblePairs(EncodeVariables(NewEncoder, data), data)

C11_InfeasibleAborts ==
    (encoders >= 1 /\ Reported # <<>>) =>
        /\ pc \in {"encoded", "done"}
        /\ encoders = 1
        /\ encoder.cnf = <<>>
        /\ diag = NewEncoder
        /\ solver = NewSolver
        /\ elapsed = <<>>
        /\ pc = "done" =>
              /\ ~result.success
              /\ result.schedule_entries = NoEntries
              /\ ~result.error_message.is_none
              /\ result.error_message.prefix = "Infeasible: "
              /\ Len(result.error_message.parts) = Len(Reported)
              /\ \A i \in 1..Len(Reported) :
                    result.error_message.parts[i] =
                        [lesson |-> Str(Reported[i][1]),
                         group  |-> Str(Reported[i][2]),
                         reason |-> Reported[i][3]]

\* A request refused because a group is larger than every room.
C11_Witness ==
    /\ pc = "done"
    /\ encoders = 1
    /\ \E i \in 1..Len(Reported) :
          /\ Reported[i][3].text = "no room has sufficient capacity for this group"
          /\ \A r \in Range(data.rooms) :
                data.room_capacities[r] < SizeOf(data, Reported[i][2])
    /\ result.error_message.prefix = "Infeasible: "

(***************************************************************************)
(* C12  Prober verdicts: get_infeasible_pairs reports a (lesson, group)    *)
(* pair if and only if its demand n is positive and, with V the encoded    *)
(* variables of that lesson and group, V is empty, or |V| < n, or no       *)
(* variable of V has a room of capacity at least the group's size; a pair  *)
(* of demand 0 is never reported.                                          *)
(***************************************************************************)
\* The keys of the encoded variables of lesson l and group g.
KeysOf(enc, l, g) == {k \in DOMAIN enc.variables : k[1] = l /\ k[3] = g}

ShouldReport(enc, dt, g, l, n) ==
    /\ n > 0
    /\ \/ KeysOf(enc, l, g) = {}
       \/ Cardinality(KeysOf(enc, l, g)) < n
       \/ \A k \in KeysOf(enc, l, g) : dt.room_capacities[k[4]] < SizeOf(dt, g)

IsReported(enc, dt, g, l) ==
    \E i \in 1..Len(GetInfeasiblePairs(enc, dt)) :
        /\ GetInfeasiblePairs(enc, dt)[i][1] = l
        /\ GetInfeasiblePairs(enc, dt)[i][2] = g

C12_ProberVerdicts ==
    pc = "encoded" =>
        \A d \in Demand(data) :
            IsReported(encoder, data, d[1], d[2])
                <=> ShouldReport(encoder, data, d[1], d[2], d[3])

(***************************************************************************)
(* C13  Validator abort: if validate_input fails, generate returns         *)
(* (False, None, reason) with the validator's reason; no encoder is built, *)
(* no clause is emitted and no solver is invoked.                          *)
(***************************************************************************)
C13_InvalidAborts ==
    ValidateInput(BuildFromInstitution(db)) # NoError =>
        /\ pc \in {"start", "done"}
        /\ encoders = 0
        /\ encoder.cnf = <<>>
        /\ diag.cnf = <<>>
        /\ solver = NewSolver
        /\ elapsed = <<>>
        /\ pc = "done" =>
              result = [success |-> FALSE, schedule_entries |-> NoEntries,
                        error_message |-> Text(ValidateInput(BuildFromInstitution(db)))]

\* A request refused by the validator, after the refusal.
C13_Witness ==
    /\ pc = "done"
    /\ ValidateInput(BuildFromInstitution(db)) # NoError
    /\ ~result.success
    /\ encoders = 0

(***************************************************************************)
(* C14  Empty collections: validate_input fails when the lessons, the      *)
(* teachers, the groups (class groups and study groups both), the rooms or *)
(* the time slots are empty, each with its own reason; an institution with *)
(* only study groups or only class groups is not refused for its groups.   *)
(***************************************************************************)
\* The reason the first empty table of db calls for, or NoError.
EmptinessReason ==
    IF db.lessons = <<>> THEN "No lessons found for this institution"
    ELSE IF db.teachers = <<>> THEN "No teachers found for this institution"
    ELSE IF db.class_groups = <<>> /\ db.study_groups = <<>>
         THEN "No class groups or study groups found for this institution"
    ELSE IF db.rooms = <<>> THEN "No rooms found for this institution"
    ELSE IF db.time_slots = <<>> THEN "No time slots found for this institution"
    ELSE NoError

EmptinessReasons ==
    {MsgNoLessons, MsgNoTeachers, MsgNoGroups, MsgNoRooms, MsgNoTimeSlots}

C14_EmptyCollectionsRefused ==
    pc # "start" =>
        /\ Cardinality(EmptinessReasons) = 5
        /\ EmptinessReason # NoError => (pc = "done" /\ result = Fail(EmptinessReason))
        /\ EmptinessReason = NoError =>
              (pc = "done" => result.error_message \notin {Text(m) : m \in EmptinessReasons})

\* A request on an institution with study groups and no class group,
\* refused for its empty room table and not for its groups.
C14_Witness ==
    /\ pc = "done"
    /\ db.rooms = <<>>
    /\ db.study_groups # <<>>
    /\ db.class_groups = <<>>
    /\ result = Fail(MsgNoRooms)

(***************************************************************************)
(* C15  No demand: validate_input fails with the no-demand reason if and   *)
(* only if every collection is non-empty, some teacher has a non-empty     *)
(* lesson set, and the counts of class_group_lessons and                   *)
(* study_group_lessons sum to zero.                                        *)
(***************************************************************************)
\* The rows of the two group-lesson tables.
DemandRowsOf(d) == Range(d.class_group_lessons) \cup Range(d.study_group_lessons)

SomeTeacherHasLessons == db.teacher_lessons # <<>>

C15_NoDemandRefused ==
    pc # "start" =>
        ((pc = "done" /\ result = Fail(MsgNoDemand))
            <=> /\ EmptinessReason = NoError
                /\ SomeTeacherHasLessons
                /\ \A row \in DemandRowsOf(db) : row.count = 0)

\* Refused for no demand although demand rows exist (all of count 0).
C15_Witness ==
    /\ pc = "done"
    /\ result = Fail(MsgNoDemand)
    /\ db.study_group_lessons # <<>>
    /\ db.class_group_lessons # <<>>

(***************************************************************************)
(* C16  No teachable demand: validate_input fails with the                 *)
(* no-teachable-demand reason exactly when the earlier checks pass and     *)
(* every lesson of any group's demand map is outside every teacher's       *)
(* lesson set; if some demanded lesson has a teacher it returns            *)
(* (True, None).                                                           *)
(***************************************************************************)
EarlierChecksPass ==
    /\ EmptinessReason = NoError
    /\ SomeTeacherHasLessons
    /\ \E row \in DemandRowsOf(db) : row.count # 0

SomeDemandedLessonTaught ==
    \E row \in DemandRowsOf(db) : \E tl \in Range(db.teacher_lessons) :
        tl.lesson_id = row.lesson_id

C16_NoTeachableDemandRefused ==
    pc # "start" =>
        /\ (pc = "done" /\ result = Fail(MsgNoTeachableDemand))
              <=> (EarlierChecksPass /\ ~SomeDemandedLessonTaught)
        /\ (EarlierChecksPass /\ SomeDemandedLessonTaught) =>
              /\ ValidateInput(BuildFromInstitution(db)) = NoError
              /\ pc = "done" => result.error_message \notin
                    {Text(m) : m \in EmptinessReasons
                                     \cup {MsgNoTeacherLessons, MsgNoDemand,
                                           MsgNoTeachableDemand}}

\* Accepted by the validator because a study group's lesson has a teacher,
\* while no class group's lesson has one.
C16_Witness ==
    /\ pc = "validated"
    /\ \E row \in Range(db.study_group_lessons) : \E tl \in Range(db.teacher_lessons) :
          tl.lesson_id = row.lesson_id
    /\ db.class_group_lessons # <<>>
    /\ \A row \in Range(db.class_group_lessons) : \A tl \in Range(db.teacher_lessons) :
          tl.lesson_id # row.lesson_id

(***************************************************************************)
(* C17  Group field of an entry: every entry of a successful result has    *)
(* exactly one of class_group_id and study_group_id non-null;              *)
(* class_group_id is set iff the entry's group is one of class_groups and  *)
(* study_group_id is set iff it is one of study_groups.                    *)
(***************************************************************************)
\* The keys the solver's model makes true, in the order of the entries.
ScheduledKeys == ExtractSchedule(encoder, solver.model)

C17_ExactlyOneGroupField ==
    Succeeded =>
        /\ Len(Entries) = Len(ScheduledKeys)
        /\ \A i \in 1..Len(Entries) :
              LET e == Entries[i]
                  g == ScheduledKeys[i][3]
              IN  /\ (e.class_group_id = NoneId) # (e.study_group_id = NoneId)
                  /\ (e.class_group_id # NoneId) <=> g \in Range(data.class_groups)
                  /\ (e.study_group_id # NoneId) <=> g \in Range(data.study_groups)
                  /\ e.class_group_id # NoneId => e.class_group_id = g
                  /\ e.study_group_id # NoneId => e.study_group_id = g

\* A success with an entry of a class group and an entry of a study group.
C17_Witness ==
    /\ Succeeded
    /\ \E i \in 1..Len(Entries) :
          Entries[i].class_group_id # NoneId /\ Entries[i].study_group_id = NoneId
    /\ \E i \in 1..Len(Entries) :
          Entries[i].study_group_id # NoneId /\ Entries[i].class_group_id = NoneId

(***************************************************************************)
(* C18  Closed set of outcomes: every generate call ends in exactly one of *)
(* Ok, InvalidInput, Infeasible and NoSolution; the triple is              *)
(* (True, entries, None) with entries non-null on success and              *)
(* (False, None, message) with message non-null on failure; the request    *)
(* never stops anywhere but at such a return.                              *)
(***************************************************************************)
ValidatorReasons ==
    {MsgNoLessons, MsgNoTeachers, MsgNoGroups, MsgNoRooms, MsgNoTimeSlots,
     MsgNoTeacherLessons, MsgNoDemand, MsgNoTeachableDemand}

OutcomeOk ==
    /\ result.success
    /\ ~result.schedule_entries.is_none
    /\ result.error_message.is_none

FailureShape ==
    /\ ~result.success
    /\ result.schedule_entries.is_none
    /\ ~result.error_message.is_none

OutcomeInvalidInput ==
    /\ FailureShape
    /\ result.error_message.prefix \in ValidatorReasons
    /\ result.error_message.parts = <<>>
    /\ encoders = 0

OutcomeInfeasible ==
    /\ FailureShape
    /\ result.error_message.prefix = "Infeasible: "
    /\ result.error_message.parts # <<>>
    /\ encoders = 1 /\ solver.created = 0

OutcomeNoSolution ==
    /\ FailureShape
    /\ result.error_message.prefix \in {MsgResourceConflict, MsgCapacityOrAvailability}
    /\ result.error_message.parts = <<>>
    /\ encoders = 2 /\ solver.created = 2

OutcomesHolding ==
    {o \in {"Ok", "InvalidInput", "Infeasible", "NoSolution"} :
        \/ o = "Ok" /\ OutcomeOk
        \/ o = "InvalidInput" /\ OutcomeInvalidInput
        \/ o = "Infeasible" /\ OutcomeInfeasible
        \/ o = "NoSolution" /\ OutcomeNoSolution}

\* The positions of generate from which one of its steps goes on.
StepsWithASuccessor ==
    {"start", "validated", "built", "encoded", "probed", "hard", "custom",
     "sat", "unsat", "diag"}

C18_ClosedOutcomes ==
    /\ pc = "done" => Cardinality(OutcomesHolding) = 1
    /\ pc # "done" => (result = NoResult /\ pc \in StepsWithASuccessor)

\* A request that went through both solves and returned a NoSolution failure.
C18_Witness ==
    /\ pc = "done"
    /\ OutcomesHolding = {"NoSolution"}
    /\ Len(elapsed) = 2

(***************************************************************************)
(* C19  Determinism of the encoding: two runs of encode_variables,         *)
(* encode_hard_constraints and encode_custom_constraints on the same       *)
(* bundle give the same number of variables, the same numbering of the     *)
(* tuples and the same multiset of clauses.                                *)
(***************************************************************************)
\* How often clause c occurs in the clause list cnf.
Occurrences(c, cnf) == Cardinality({i \in 1..Len(cnf) : cnf[i] = c})

SameClauseMultiset(a, b) ==
    \A c \in Range(a) \cup Range(b) : Occurrences(c, a) = Occurrences(c, b)

C19_EncodingDeterministic ==
    pc = "second_run" =>
        /\ encoder.next_var = diag.next_var
        /\ encoder.variables = diag.variables
        /\ encoder.reverse_variables = diag.reverse_variables
        /\ encoder.group_types = diag.group_types
        /\ SameClauseMultiset(encoder.cnf, diag.cnf)

\* Two runs that visited overlapping_sg_pairs in different orders and
\* emitted their clauses in different orders.
C19_Witness ==
    /\ pc = "second_run"
    /\ Cardinality(OverlappingSgPairs(data)) = 3
    /\ encoder.cnf # diag.cnf
    /\ \E i \in 1..Len(encoder.cnf) : encoder.cnf[i].type = "equals"

(***************************************************************************)
(* C20  Other kinds of constraint: encode_custom_constraints accepts a     *)
(* constraint of any kind; one whose kind is neither teacher_unavailable   *)
(* nor room_unavailable adds no clause and no variable, so the CNF and the *)
(* outcome of generate are those of the bundle without it.                 *)
(***************************************************************************)
\* The bundle without its constraints of other kinds.
WithoutOtherKinds(dt) ==
    [dt EXCEPT !.constraints = SelectSeq(@, LAMBDA c :
        c.constraint_type \in {"teacher_unavailable", "room_unavailable"})]

HasOtherKinds(dt) == WithoutOtherKinds(dt) # dt

C20_OtherKindsIgnored ==
    /\ pc \in {"custom", "sat", "unsat", "diag"} \/ (pc = "done" /\ solver.created >= 1)
          => encoder = EncodeRun(WithoutOtherKinds(data), SeqOfSet(OverlappingSgPairs(data)))
    /\ pc = "diag" \/ (pc = "done" /\ solver.created = 2)
          => diag = DiagEncoder(WithoutOtherKinds(data))

\* A request that succeeded on an institution which stores a constraint of
\* an unknown kind next to an unavailability constraint.
C20_Witness ==
    /\ Succeeded
    /\ \E i \in 1..Len(data.constraints) : data.constraints[i].constraint_type = "lunch_break"
    /\ \E i \in 1..Len(data.constraints) :
          data.constraints[i].constraint_type = "room_unavailable"

(***************************************************************************)
(* C23  Variable allocation: after encode_variables a variable exists for  *)
(* <<L, T, G, R, S>> if and only if L is in teacher_lessons[T] and the     *)
(* demand of (G, L) in the map of G's variant is greater than 0, R being   *)
(* any room and S any time slot; so their number is |rooms| * |slots|      *)
(* times the number of eligible (L, T, G), and a pair of demand 0 or       *)
(* without demand has no variable.                                         *)
(***************************************************************************)
\* demand[G][L] in the map that matches G's variant; 0 when absent.
DemandCount(dt, g, l) ==
    LET items == IF g \in Range(dt.study_groups)
                 THEN ItemsOf(dt.study_group_lessons, g)
                 ELSE ItemsOf(dt.class_group_lessons, g)
        mine  == SelectSeq(items, LAMBDA it : it[1] = l)
    IN  IF mine = <<>> THEN 0 ELSE mine[Len(mine)][2]

EligibleTriples(dt) ==
    {x \in Range(dt.lessons) \X Range(dt.teachers)
           \X (Range(dt.class_groups) \cup Range(dt.study_groups)) :
        x[1] \in dt.teacher_lessons[x[2]] /\ DemandCount(dt, x[3], x[1]) > 0}

C23_VariablesIffDemanded ==
    pc = "encoded" =>
        /\ DOMAIN encoder.variables =
              {<<x[1], x[2], x[3], r, s>> :
                  x \in EligibleTriples(data), r \in Range(data.rooms),
                  s \in Range(data.time_slots)}
        /\ Cardinality(DOMAIN encoder.variables) =
              Len(data.rooms) * Len(data.time_slots) * Cardinality(EligibleTriples(data))

\* The same statement for bundles whose stored counts are all positive.
C23_HoldsForPositiveCounts ==
    (pc = "encoded" /\ \A p \in Demand(data) : p[3] > 0) => C23_VariablesIffDemanded

(***************************************************************************)
(* C24  Stripped encoding: for one bundle the clauses of the encoder built *)
(* with skip_conflicts=True are, as a multiset, the clauses of the full    *)
(* encoder without its two-literal at-most-one clauses: the same demand    *)
(* blocks with the same auxiliary numbering, the same capacity and custom  *)
(* unit clauses, nothing else; so every satisfying assignment of the full  *)
(* clause list satisfies the stripped one.                                 *)
(***************************************************************************)
\* A teacher, group, room or student-overlap clause: [-a, -b].
IsAtMostOneClause(c) == c.type = "clause" /\ Len(c.lits) = 2

IsUnitClause(c) == c.type = "clause" /\ Len(c.lits) = 1

WithoutAtMostOne(cnf) == SelectSeq(cnf, LAMBDA c : ~IsAtMostOneClause(c))

StrippedOf(full, stripped) ==
    /\ SameClauseMultiset(WithoutAtMostOne(full.cnf), stripped.cnf)
    /\ \A i \in 1..Len(stripped.cnf) : ~IsAtMostOneClause(stripped.cnf[i])
    /\ stripped.variables = full.variables
    /\ stripped.next_var = full.next_var
    /\ SatisfyingAssignments(full) \subseteq SatisfyingAssignments(stripped)

C24_StrippedIsFullMinusConflicts ==
    /\ pc \in {"custom", "sat", "unsat"} => StrippedOf(encoder, DiagEncoder(data))
    /\ pc = "diag" => StrippedOf(encoder, diag)

\* The diagnostic encoder next to a full encoder that holds at-most-one
\* clauses, a demand block with auxiliaries and a capacity unit clause.
C24_Witness ==
    /\ pc = "diag"
    /\ \E i \in 1..Len(encoder.cnf) : IsAtMostOneClause(encoder.cnf[i])
    /\ \E i \in 1..Len(diag.cnf) :
          diag.cnf[i].type = "equals" /\ diag.cnf[i].nv > diag.cnf[i].top_id
    /\ \E i \in 1..Len(diag.cnf) : IsUnitClause(diag.cnf[i])

(***************************************************************************)
(* C25  Variable numbering: after encode_variables the tuple variables are *)
(* numbered 1..k without gaps, variables and reverse_variables are inverse *)
(* bijections, next_var = k + 1, and no later encoder operation lowers     *)
(* next_var; a duplicate identifier in an input list allocates no second   *)
(* variable for a tuple.                                                   *)
(***************************************************************************)
NumberedContiguously(enc) ==
    LET k == Cardinality(DOMAIN enc.variables)
    IN  /\ {enc.variables[key] : key \in DOMAIN enc.variables} = 1..k
        /\ DOMAIN enc.reverse_variables = 1..k
        /\ \A key \in DOMAIN enc.variables : enc.reverse_variables[enc.variables[key]] = key
        /\ \A v \in 1..k : enc.variables[enc.reverse_variables[v]] = v

AfterEncodeVariables == pc \in {"encoded", "probed", "hard", "custom"}

C25_VariableNumbering ==
    /\ [](AfterEncodeVariables => NumberedContiguously(encoder))
    /\ [](pc = "encoded" => encoder.next_var = Cardinality(DOMAIN encoder.variables) + 1)
    /\ [][encoder'.next_var >= encoder.next_var]_vars

\* Lists with duplicates went through encode_variables, and a later
\* operation has moved next_var past the tuple variables.
C25_Witness ==
    /\ pc = "custom"
    /\ \E i, j \in 1..Len(data.lessons) : i # j /\ data.lessons[i] = data.lessons[j]
    /\ \E i, j \in 1..Len(data.time_slots) : i # j /\ data.time_slots[i] = data.time_slots[j]
    /\ Cardinality(DOMAIN encoder.variables) > 0
    /\ encoder.next_var > Cardinality(DOMAIN encoder.variables) + 1

(***************************************************************************)
(* C26  Auxiliary variables: the auxiliaries of the exactly-n block of a   *)
(* demand pair are greater than every tuple variable and disjoint from     *)
(* the auxiliaries of every other block; none of them is a key of          *)
(* reverse_variables, and extract_schedule makes an entry of the positive  *)
(* tuple literals of the model only.                                       *)
(***************************************************************************)
\* The auxiliary variables of the block at position i of the clause list.
Auxiliaries(enc, i) ==
    IF enc.cnf[i].type = "equals" THEN (enc.cnf[i].top_id + 1)..enc.cnf[i].nv ELSE {}

AuxiliariesApart(enc) ==
    /\ \A i \in 1..Len(enc.cnf) : \A a \in Auxiliaries(enc, i) :
          /\ \A key \in DOMAIN enc.variables : a > enc.variables[key]
          /\ a \notin DOMAIN enc.reverse_variables
          /\ a < enc.next_var
    /\ \A i, j \in 1..Len(enc.cnf) :
          i # j => Auxiliaries(enc, i) \cap Auxiliaries(enc, j) = {}

\* Positions of the model holding a positive tuple literal.
PositiveTupleLiterals(enc, model) ==
    {i \in 1..Len(model) : model[i] > 0 /\ \E key \in DOMAIN enc.variables :
                                            enc.variables[key] = model[i]}

C26_AuxiliariesApart ==
    /\ pc \in {"hard", "custom", "sat", "unsat", "diag"} => AuxiliariesApart(encoder)
    /\ pc = "done" /\ solver.created >= 1 => AuxiliariesApart(encoder)
    /\ pc = "diag" => AuxiliariesApart(diag)
    /\ pc = "sat" =>
          LET extracted == ExtractSchedule(encoder, solver.model)
          IN  /\ Len(extracted) = Cardinality(PositiveTupleLiterals(encoder, solver.model))
              /\ \A i \in 1..Len(extracted) : extracted[i] \in DOMAIN encoder.variables
    /\ Succeeded =>
          Len(Entries) = Cardinality(PositiveTupleLiterals(encoder, solver.model))

\* A success whose model sets auxiliaries of two different blocks true.
C26_Witness ==
    /\ Succeeded
    /\ \E i, j \in 1..Len(encoder.cnf) :
          /\ i # j
          /\ \E a \in Auxiliaries(encoder, i) : solver.model[a] > 0
          /\ \E b \in Auxiliaries(encoder, j) : solver.model[b] > 0
    /\ Len(Entries) < Cardinality({i \in 1..Len(solver.model) : solver.model[i] > 0})

(***************************************************************************)
(* C27  Choice of the diagnostic: when the prober reports nothing and the  *)
(* full clause list is unsatisfiable, generate returns the capacity-or-    *)
(* unavailability message if and only if some demand pair (G, L) of        *)
(* demand n keeps fewer than n of its encoded tuples once the tuples in a  *)
(* room smaller than G and the tuples whose (teacher, slot) or (room,      *)
(* slot) a teacher_unavailable or room_unavailable constraint lists are    *)
(* discarded; otherwise it returns the resource-conflict message.          *)
(***************************************************************************)
\* The encoded tuples of (g, l) that survive capacity and unavailability.
TuplesLeft(enc, dt, g, l) ==
    {key \in DOMAIN enc.variables :
        /\ key[1] = l /\ key[3] = g
        /\ dt.room_capacities[key[4]] >= SizeOf(dt, g)
        /\ ~Unavailable(dt, key[2], key[4], key[5])}

SomePairStarved ==
    \E p \in Demand(data) : Cardinality(TuplesLeft(encoder, data, p[1], p[2])) < p[3]

BothSolvesDone == pc = "done" /\ solver.created = 2

C27_DiagnosticChoice ==
    BothSolvesDone =>
        IF SomePairStarved
        THEN result.error_message = Text(MsgCapacityOrAvailability)
        ELSE result.error_message = Text(MsgResourceConflict)

\* The same statement for bundles without stored constraints.
C27_HoldsWithoutConstraints ==
    (BothSolvesDone /\ data.constraints = <<>>) => C27_DiagnosticChoice

(***************************************************************************)
(* C28  Priority is ignored: a teacher_unavailable or room_unavailable     *)
(* constraint of priority 0 yields the unit clauses of the same constraint *)
(* with priority 1, and is therefore enforced like a hard constraint: no   *)
(* entry of a successful result uses its teacher or room in a slot it      *)
(* lists.                                                                  *)
(***************************************************************************)
IsUnavailability(c) == c.constraint_type \in {"teacher_unavailable", "room_unavailable"}

\* The bundle dt with only its unavailability constraints of priority 0.
SoftOnly(dt) ==
    [dt EXCEPT !.constraints =
        SelectSeq(@, LAMBDA c : IsUnavailability(c) /\ c.priority = 0)]

\* The clauses of each unavailability constraint do not depend on priority.
C28_PriorityIgnored ==
    pc \in {"hard", "custom"} =>
        \A c \in Range(data.constraints) :
            IsUnavailability(c) =>
                \A p \in {0, 1} :
                    CustomClauses(encoder, [c EXCEPT !.priority = p])
                        = CustomClauses(encoder, c)

C28_SoftEnforcedAsHard ==
    /\ C28_PriorityIgnored
    /\ Succeeded =>
          \A i \in 1..Len(Entries) :
              ~Unavailable(SoftOnly(data), Entries[i].teacher_id,
                           Entries[i].room_id, Entries[i].time_slot_id)

(***************************************************************************)
(* C21  No shared mutable state: of two generate calls that run            *)
(* concurrently in one process, neither reads nor overwrites anything the  *)
(* other has written (variables, clauses, solver state, files).            *)
(***************************************************************************)
\* Calls r and q were inside generate at the same time.
RanConcurrently(r, q) == q \in requests[r].concurrent_with

\* What call r wrote to the debug file has been overwritten by call q.
Overwritten(r, q) ==
    requests[r].logged /\ debug_file.exists /\ debug_file.written_by = q

C21_NoSharedState ==
    \A r, q \in Requests : r # q /\ RanConcurrently(r, q) => ~Overwritten(r, q)

(***************************************************************************)
(* C22  One bundle per call: the bundle validate_input checked is the      *)
(* bundle generate encodes and solves, even when another request changes   *)
(* the stored data while generate is suspended.                            *)
(***************************************************************************)
HoldsBothBundles(r) ==
    \/ requests[r].pc \in {"built", "selecting", "committing"}
    \/ requests[r].pc = "responded" /\ requests[r].logged

C22_SameBundle ==
    \A r \in Requests : HoldsBothBundles(r) => requests[r].data = requests[r].checked

(***************************************************************************)
(* C29  Frame of the route: a request whose generation fails leaves the    *)
(* stored entries, status and generated_at as they were; a request whose   *)
(* generation succeeds removes every entry it found stored, stores exactly *)
(* the returned entries and sets status to "generated" (so the stored      *)
(* entries are exactly the returned ones whenever no other request has     *)
(* committed since it looked); nothing else changes the stored schedule.   *)
(***************************************************************************)
\* This step is the one in which request r is answered.
Answered(r) == requests[r].pc # "responded" /\ requests'[r].pc = "responded"

BothCommitted ==
    \A r \in Requests : requests[r].pc = "responded" /\ requests[r].result.success

StoredTwiceInASlot ==
    \E e, f \in schedule.entries :
        /\ e # f
        /\ e.row.time_slot_id = f.row.time_slot_id
        /\ \/ e.row.teacher_id = f.row.teacher_id
           \/ e.row.room_id = f.row.room_id
           \/ EntryGroup(e.row) = EntryGroup(f.row)

C30_OneRunStored ==
    BothCommitted =>
        /\ \E r \in Requests : schedule.entries = NewEntries(r)
        /\ ~StoredTwiceInASlot


====
